---- MODULE Spec2Model ----
(***************************************************************************)
(* A model of the data layer of the DataFlow Intelligence Platform:        *)
(*   src/src/utils/data_handler.py   the three synthetic generators and    *)
(*                                   the loaders in front of them          *)
(*   src/src/utils/csv_validator.py  the structural validator, the cleaner *)
(*                                   and the integrity checkers            *)
(*                                                                         *)
(* Numbers.  Python floats are modelled in fixed point: a Happiness_score  *)
(* or GDP_per_capita is held in thousandths (the code rounds both to three *)
(* decimals), a percentage of the enrollment table in tenths (the bases    *)
(* are multiples of 0.1 and the noise is an integer), a coordinate in      *)
(* hundredths of a degree.  The integer formulas below give, for every     *)
(* value of the code's static tables, the number the Python expression     *)
(* gives (int() truncation included).                                      *)
(*                                                                         *)
(* Randomness.  numpy's generator is one process-wide object.  Two views   *)
(* of it are used: in the row specifications every draw is any value of    *)
(* its range (what holds there holds for every outcome of the draws); in   *)
(* the call specifications the generator is a deterministic stream, a      *)
(* function of the seed and of the number of draws made since seeding:     *)
(* the Mersenne Twister's own numbers for seed 42, from which the          *)
(* happiness table is made, and a stand-in stream for the other seeds,     *)
(* which depend on the process's hash secret.                              *)
(***************************************************************************)
EXTENDS Integers, Sequences, FiniteSets, TLC

VARIABLES
    loop,       \* the generator loop being run: which generator, for which
                \* airport, how many rows appended so far (n), the index of
                \* the destination (i) and the flights made for it (k)
    row,        \* the row dictionary the loop body has built and not yet
                \* appended
    ret,        \* what the latest call returned
    rng,        \* the state of numpy's process-wide generator: the seed it
                \* was last seeded with and the draws made since
    hashseed,   \* the process's string-hash secret (PYTHONHASHSEED)
    stream,     \* which stream of numbers the generator algorithm yields
    tie,        \* the order the build's sort leaves equal keys in
    cache,      \* st.cache_data's memory: call key -> returned table
    seen,       \* call key -> the table its first call returned
    calls,      \* the number of calls made so far
    disk        \* the files: path -> what is at the path

callVars == <<rng, hashseed, stream, tie, cache, seen, calls, disk>>
vars == <<loop, row, ret, callVars>>

(***************************************************************************)
(* Bounds of the model.                                                    *)
(***************************************************************************)
\* A draw of the row specifications takes the two ends of its range and
\* NoisePoints - 1 evenly spaced values between them.
NoisePoints == 2

(***************************************************************************)
(* Draws.                                                                  *)
(***************************************************************************)
Min(a, b) == IF a <= b THEN a ELSE b
Max(a, b) == IF a >= b THEN a ELSE b

\* np.random.randint(low, high): any integer of low..high-1.
randint(low, high) == low..(high - 1)

\* np.random.uniform(low, high), in thousandths, as round(.., 3) leaves it.
uniform(low, high) == low..high

SetMin(S) == CHOOSE x \in S : \A y \in S : x <= y
SetMax(S) == CHOOSE x \in S : \A y \in S : x >= y

\* Of a range of draws, its two ends and NoisePoints - 1 evenly spaced values
\* between them.
Sample(S) ==
    LET lo == SetMin(S)
        hi == SetMax(S)
    IN  { lo + ((hi - lo) * k) \div NoisePoints : k \in 0..NoisePoints }

\* Of a range of draws, its two ends.
Ends(S) == {SetMin(S), SetMax(S)}

(***************************************************************************)
(* numpy's process-wide generator as a deterministic stream.               *)
(***************************************************************************)
\* The generator algorithms the model runs with: each is one fixed stream of
\* numbers per seed.
Streams == {0, 1}

\* The string-hash secrets a process may start with.
HashSeeds == {0, 1}

\* A build's sort is deterministic, but the default kind ("quicksort") is
\* not stable: equal keys come out in the order they went in, or reversed.
TieOrders == {"kept", "reversed"}

\* np.random.seed(s)
seed(s) == [seed |-> s, pos |-> 0]

\* The generator of a process that has not seeded it: seeded by the system.
Unseeded == seed(1000)

\* The first 413 numbers np.random.random_sample() yields after
\* np.random.seed(42) (MT19937), each as the integer part of 2^30 times the
\* number: the seven draws of each of the 59 rows of the happiness table.
random_sample_42 ==
    << 402159390, 1020821713, 785972510, 642804652, 167523739, 167497840, 62366803,
       930049554, 645442329, 760287141, 22102432, 1041432773, 893828479, 227997384,
       195233071, 196929092, 326677620, 563452928, 463797432, 312704908, 656972043,
       149780392, 313687927, 393378033, 489701416, 843076268, 214398091, 552155023,
       636100299, 49875750, 652346317, 183098883, 69848616, 1018858087, 1036839500,
       868010043, 327076544, 104874633, 734689617, 472610141, 131037556, 531692158,
       36924393, 976375347, 277862889, 711377886, 334697219, 558418785, 587025692,
       198485960, 1041083566, 832292531, 1008779307, 960813551, 641990213, 989854922,
       95018100, 210434996, 48562431, 349320782, 417339061, 291358804, 889850124,
       383060967, 301651132, 582715482, 151316234, 861352449, 80048144, 1059661779,
       829191507, 213369338, 5929328, 875595041, 758982293, 782765486, 828145228,
       79504839, 384899645, 124413455, 926750246, 669261267, 355299048, 68245258,
       333914725, 349162933, 783408668, 684572122, 952637428, 507036915, 128413343,
       765840758, 816886725, 602666801, 827819706, 530208984, 561280101, 459068672,
       27293579, 115847537, 33746831, 683340475, 337537164, 546073621, 974492081,
       267675492, 440645308, 811266857, 245670159, 82656548, 311118253, 173110039,
       998255252, 867712650, 680112104, 935723683, 862936321, 200328075, 958377927,
       579114322, 866982264, 962170706, 341453631, 118167354, 244743517, 458603496,
       878336666, 924202426, 7464793, 548410740, 448191651, 238486445, 128704458,
       362511529, 1012441585, 347036505, 557047188, 754860859, 390444312, 1043443066,
       1033419913, 270349181, 533916517, 323065625, 305845151, 39607058, 654514719,
       539747491, 55274888, 299194362, 975243069, 257227621, 155579684, 525545899,
       1058334116, 259904868, 721700048, 817782834, 255161369, 781916350, 394904131,
       678933215, 680247347, 575283686, 96947902, 896899225, 344434972, 200272725,
       43781974, 634466466, 727529193, 17811045, 549855734, 243197986, 692749008,
       187224527, 741888747, 415253916, 1005806166, 147661989, 366217205, 121841265,
       992882212, 942035957, 276962713, 708652473, 877485655, 596142332, 568707978,
       259686919, 99968335, 963378084, 966816527, 679787513, 364030466, 374960925,
       779488974, 963264806, 952501795, 837384991, 689376230, 90344599, 173547510,
       964815213, 651148244, 9875258, 108954239, 712429599, 5434834, 172666330,
       589198419, 742916811, 700038071, 240807337, 764696616, 254744267, 349395265,
       801539042, 697538013, 911846693, 706106466, 610216716, 100582516, 394831837,
       284758874, 261981884, 1044762127, 422085467, 957827695, 677679939, 853422138,
       539702469, 619445829, 528836846, 209640561, 775727051, 301477028, 26109070,
       693070600, 190171143, 1009809715, 1024273010, 982328159, 397454877, 16596415,
       996774466, 459759228, 1037937708, 1034679071, 915911928, 316162090, 413495537,
       913901042, 340292411, 181991450, 597860803, 1005188534, 747356303, 612098520,
       104342465, 660358981, 1063062226, 150414066, 556552226, 942072162, 795394246,
       748414953, 754286541, 386000684, 315241842, 869044923, 869852634, 931011812,
       980584576, 549049720, 538499021, 857162921, 697893456, 753731195, 854475872,
       955635959, 362919536, 403279124, 100912339, 620923573, 38592722, 499932065,
       582660239, 307671326, 634402382, 32749394, 40102312, 883260626, 386751756,
       136430186, 560754430, 826774282, 231736063, 668823555, 91641142, 55492825,
       570537691, 580502541, 684435145, 779634633, 1047813191, 554373277, 346771872,
       853824675, 290803915, 471341973, 84241898, 27220153, 1033635864, 897626819,
       747296613, 439109880, 186073359, 167972995, 268696265, 589727640, 767291529,
       708881535, 300576733, 1025278788, 792310781, 595233131, 656830149, 450542136,
       265999124, 382222753, 813731064, 15454890, 124632048, 49394960, 43732218,
       918543807, 755546873, 509140272, 105048630, 527868526, 508386442, 185974091,
       465844661, 427891200, 661264007, 681926615, 48644810, 402237232, 672011967,
       540238444, 919648964, 707266901, 174949508, 75772615, 689792447, 28466302,
       628971741, 1009564534, 617910693, 416794284, 690725465, 492045294, 585851566,
       1010890141, 414574550, 1032070509, 972112849, 210229130, 74476129, 108209555,
       19565536, 101407356, 733372938, 76438229, 342497475, 907177957, 24988050,
       874528874, 302639259, 126878517, 748115834, 675322239, 942178400, 789276523,
       862731079, 302832316, 190524259, 805966452, 866332204, 1063546797, 443044857,
       399451378, 833667068, 365935014, 999393068, 921713673, 460628829, 806241669,
       810184241, 110728411, 969108804, 542510603, 887401947, 343650642, 961560744,
       417902120, 11636839, 972146494, 98018322, 342860407, 1020121269, 1020706651 >>

\* The raw number stream st yields as draw number j (from 0) after state g,
\* as a fraction of 2^30: the Mersenne Twister's numbers where the table has
\* them, else those of the stand-in stream st.
Raw(st, g, j) ==
    IF g.seed = 42 /\ g.pos + j < Len(random_sample_42)
    THEN random_sample_42[g.pos + j + 1]
    ELSE LET x == ((g.seed + 1) * 7919 + (g.pos + j + 1) * 104729
                   + (st + 1) * 1299709) % 32749
         IN  ((x * x + 3 * x) % 32749) * 32768 + x

\* The state after n more draws.
Advance(g, n) == [g EXCEPT !.pos = @ + n]

\* u * width for a fraction u of 2^30, in units of 2^-15.
Scale(u, width) == (u \div 32768) * width + ((u % 32768) * width) \div 32768

\* The value np.random.randint(low, high) returns as draw j after g: the
\* draw taken as a fraction of the range.
draw_randint(st, g, j, low, high) ==
    low + Scale(Raw(st, g, j), high - low) \div 32768

\* round(np.random.uniform(low, high), 3) as draw j after g, in thousandths.
draw_uniform(st, g, j, low, high) ==
    low + (Scale(Raw(st, g, j), high - low) + 16384) \div 32768

(***************************************************************************)
(* The files.  What is at a path is a record: its kind, and for a CSV file *)
(* its header line, the number of its data rows and the place of its first *)
(* malformed data row (0: none).                                           *)
(***************************************************************************)
\* The paths of the model: the enrollment file of the data directory.
Paths == {"data/raw/university_data.csv"}

File(kind, header, rows, bad) ==
    [kind |-> kind, header |-> header, rows |-> rows, bad |-> bad]

\* Nothing is at the path.
Missing == File("missing", <<>>, 0, 0)

\* A data directory without files: the loaders fall back on the generators.
NoFiles == [p \in Paths |-> Missing]

(***************************************************************************)
(* DataHandler._generate_synthetic_university_data                         *)
(***************************************************************************)
\* years running on to 2030.
years_to_2030 == 2015..2030

years == 2015..2024
terms == <<"Spring", "Fall">>

\* The i-th (year, term) of the nested loops (i from 0): years outside,
\* terms inside.
UniversityIteration(i) == [year |-> 2015 + (i \div 2), term |-> terms[(i % 2) + 1]]
UniversityRows == Cardinality(years) * Len(terms)

\* base_apps, after the Fall multiplier: int(base_apps * 1.3).
base_apps(year, term) ==
    LET b == 2500 + (year - 2015) * 120
    IN  IF term = "Fall" THEN (b * 13) \div 10 ELSE b

\* A base retention that gains eight points a year, without a cap.
base_retention_steep(year) == 850 + (year - 2015) * 80

\* base_retention and base_satisfaction, in tenths of a percent.
base_retention(year) == 850 + Min((year - 2015) * 8, 80)
base_satisfaction(year) == 780 + Min((year - 2015) * 12, 120)

\* The nine draws of one row, in the order the code makes them: the five of
\* the columns that are checked are sampled, the four department counts take
\* the ends of their ranges.
UniversityDraws ==
    [apps : Sample(randint(-100, 100)), adm : Sample(randint(-50, 50)),
     enr : Sample(randint(-30, 30)),
     ret : Sample(randint(-3, 3)), sat : Sample(randint(-4, 4)),
     eng : Ends(randint(-8, 8)), bus : Ends(randint(-6, 6)),
     arts : Ends(randint(-5, 5)), sci : Ends(randint(-4, 4))]

\* UniversityRow with the two rates exchanged: Admitted from 0.28, Enrolled
\* from 0.65.
UniversityRow_rates_swapped(year, term, d) ==
    LET b == base_apps(year, term)
    IN  [Year |-> year,
         Term |-> term,
         Applications |-> b + d.apps,
         Admitted |-> ((b * 28) \div 100) + d.adm,
         Enrolled |-> ((b * 65) \div 100) + d.enr,
         Retention |-> Max(750, base_retention(year) + 10 * d.ret),
         Satisfaction |-> Max(700, base_satisfaction(year) + 10 * d.sat),
         Engineering |-> ((b * 28 * 35) \div 10000) + d.eng,
         Business |-> ((b * 28 * 28) \div 10000) + d.bus,
         Arts |-> ((b * 28 * 22) \div 10000) + d.arts,
         Science |-> ((b * 28 * 15) \div 10000) + d.sci]

\* The row of one (year, term), given its nine draws.
UniversityRow(year, term, d) ==
    LET b == base_apps(year, term)
    IN  [Year |-> year,
         Term |-> term,
         Applications |-> b + d.apps,
         Admitted |-> ((b * 65) \div 100) + d.adm,
         Enrolled |-> ((b * 28) \div 100) + d.enr,
         Retention |-> Max(750, base_retention(year) + 10 * d.ret),
         Satisfaction |-> Max(700, base_satisfaction(year) + 10 * d.sat),
         Engineering |-> ((b * 28 * 35) \div 10000) + d.eng,
         Business |-> ((b * 28 * 28) \div 10000) + d.bus,
         Arts |-> ((b * 28 * 22) \div 10000) + d.arts,
         Science |-> ((b * 28 * 15) \div 10000) + d.sci]

(***************************************************************************)
(* The row specification of the enrollment generator: one action per       *)
(* iteration of its loop, every draw free in its range.                    *)
(***************************************************************************)
NoRow == [none |-> TRUE]
Idle == [gen |-> "idle", code |-> "", n |-> 0, i |-> 0, k |-> 0]
NoReturn == [of |-> "none"]

\* What the latest call returned (none while a call runs); of a generator
\* loop, as far as the row specifications keep it:
\* the generator, its argument and the number of rows of the table.
Returned(l) == [of |-> l.gen, code |-> l.code, rows |-> l.n]

\* A process that has made no call yet.
InitProcess ==
    /\ rng = Unseeded
    /\ hashseed \in HashSeeds
    /\ stream \in Streams
    /\ tie \in TieOrders
    /\ cache = <<>>
    /\ seen = <<>>
    /\ calls = 0
    /\ disk = NoFiles

\* The row specifications run one generator loop at a time and read nothing
\* of the process but the loop.
InitRows ==
    /\ loop = Idle
    /\ row = NoRow
    /\ ret = NoReturn
    /\ rng = Unseeded
    /\ hashseed = 0
    /\ stream = 0
    /\ tie = "kept"
    /\ cache = <<>>
    /\ seen = <<>>
    /\ calls = 0
    /\ disk = NoFiles

\* np.random.seed(42); data = []
UniversityBegin ==
    /\ loop.gen = "idle"
    /\ loop' = [Idle EXCEPT !.gen = "university"]
    /\ row' = NoRow
    /\ ret' = NoReturn
    /\ UNCHANGED callVars

\* The loop body up to the row dictionary: row = {...}, its nine draws made.
UniversityBuildRow ==
    /\ loop.gen = "university"
    /\ loop.n < UniversityRows
    /\ row = NoRow
    /\ \E d \in UniversityDraws :
          LET it == UniversityIteration(loop.n)
          IN  row' = UniversityRow(it.year, it.term, d)
    /\ UNCHANGED <<loop, ret>>
    /\ UNCHANGED callVars

\* data.append(row), and on to the next (year, term).
UniversityAppend ==
    /\ loop.gen = "university"
    /\ row # NoRow
    /\ loop' = [loop EXCEPT !.n = @ + 1]
    /\ row' = NoRow
    /\ UNCHANGED ret
    /\ UNCHANGED callVars

\* return pd.DataFrame(data)
UniversityReturn ==
    /\ loop.gen = "university"
    /\ loop.n = UniversityRows
    /\ row = NoRow
    /\ ret' = Returned(loop)
    /\ loop' = Idle
    /\ row' = NoRow
    /\ UNCHANGED callVars

NextUniversityRows ==
    UniversityBegin \/ UniversityBuildRow \/ UniversityAppend \/ UniversityReturn

SpecUniversityRows == InitRows /\ [][NextUniversityRows]_vars

\* C1: every row the enrollment generator appends, whatever the nine draws
\* were, has 0 <= Enrolled <= Admitted <= Applications.
C1_EnrollmentOrdered ==
    (loop.gen = "university" /\ row # NoRow) =>
        /\ 0 <= row.Enrolled
        /\ row.Enrolled <= row.Admitted
        /\ row.Admitted <= row.Applications

\* The first row with the draws that bring the three counts closest: the
\* lowest Applications, the highest Admitted and the highest Enrolled.
C1_Witness ==
    /\ loop.gen = "university"
    /\ row # NoRow
    /\ row.Year = 2015 /\ row.Term = "Spring"
    /\ row.Applications = 2400
    /\ row.Admitted = 1674
    /\ row.Enrolled = 729

(***************************************************************************)
(* DataHandler._generate_synthetic_happiness_data                          *)
(***************************************************************************)
\* The regions, in the insertion order of the countries_by_region dictionary.
regions ==
    <<"Europe", "North America", "Latin America", "Asia & Pacific",
      "Middle East", "Africa", "Former Soviet States">>

countries_by_region ==
    ("Europe" :> <<"Finland", "Denmark", "Iceland", "Switzerland", "Netherlands",
                   "Luxembourg", "Sweden", "Norway", "Austria", "Ireland",
                   "Germany", "Czechia", "Belgium", "Slovenia", "United Kingdom",
                   "France", "Estonia", "Spain", "Italy">>) @@
    ("North America" :> <<"Canada", "United States">>) @@
    ("Latin America" :> <<"Costa Rica", "Uruguay", "Brazil", "Chile", "Mexico",
                          "Argentina", "Panama", "Colombia">>) @@
    ("Asia & Pacific" :> <<"New Zealand", "Australia", "Israel", "Singapore",
                           "Japan", "South Korea", "Thailand", "Malaysia",
                           "China", "Vietnam", "Indonesia">>) @@
    ("Middle East" :> <<"United Arab Emirates", "Saudi Arabia", "Bahrain",
                        "Kuwait", "Jordan", "Lebanon">>) @@
    ("Africa" :> <<"Mauritius", "South Africa", "Morocco", "Ghana", "Kenya",
                   "Nigeria", "Ethiopia", "Rwanda", "Zimbabwe">>) @@
    ("Former Soviet States" :> <<"Kazakhstan", "Russia", "Belarus", "Ukraine">>)

\* In thousandths.
region_base_happiness ==
    ("Europe" :> 7000) @@ ("North America" :> 6800) @@ ("Latin America" :> 6200) @@
    ("Asia & Pacific" :> 5800) @@ ("Middle East" :> 5500) @@ ("Africa" :> 4500) @@
    ("Former Soviet States" :> 5000)

\* In thousandths.
region_base_gdp ==
    ("Europe" :> 1600) @@ ("North America" :> 1700) @@ ("Latin America" :> 1000) @@
    ("Asia & Pacific" :> 1300) @@ ("Middle East" :> 1400) @@ ("Africa" :> 700) @@
    ("Former Soviet States" :> 1100)

\* The (region, country) pairs in the order the nested loops visit them,
\* from region number r on.
RECURSIVE HappinessOrderFrom(_)
HappinessOrderFrom(r) ==
    IF r > Len(regions) THEN <<>>
    ELSE LET cs == countries_by_region[regions[r]]
         IN  [j \in 1..Len(cs) |-> [region |-> regions[r], country |-> cs[j]]]
             \o HappinessOrderFrom(r + 1)

HappinessOrder == HappinessOrderFrom(1)
HappinessRows == Len(HappinessOrder)

\* The seven draws of one row, in thousandths, in the order the code makes
\* them: score and GDP noise are sampled, the five other columns take the
\* ends of their ranges.
HappinessDraws ==
    [happiness : Sample(uniform(-800, 800)), gdp : Sample(uniform(-300, 300)),
     social : Ends(uniform(500, 1500)), health : Ends(uniform(500, 1500)),
     freedom : Ends(uniform(300, 1200)), generosity : Ends(uniform(-200, 500)),
     corruption : Ends(uniform(0, 500))]

\* happiness = max(2.0, min(8.0, happiness))
clamp_happiness(h) == Max(2000, Min(8000, h))

\* gdp = max(0.3, min(2.0, gdp))
clamp_gdp(g) == Max(300, Min(2000, g))

\* HappinessRow without the two clamps and with the noise ten times as wide.
HappinessRow_unclamped(rank, region, country, d) ==
    [RANK |-> rank,
     Country |-> country,
     Happiness_score |-> region_base_happiness[region] + 10 * d.happiness,
     GDP_per_capita |-> region_base_gdp[region] + 10 * d.gdp,
     Social_support |-> d.social,
     Healthy_life_expectancy |-> d.health,
     Freedom |-> d.freedom,
     Generosity |-> d.generosity,
     Corruption |-> d.corruption,
     Region |-> region]

\* The row of one country, given the running rank and its seven draws.
HappinessRow(rank, region, country, d) ==
    [RANK |-> rank,
     Country |-> country,
     Happiness_score |-> clamp_happiness(region_base_happiness[region] + d.happiness),
     GDP_per_capita |-> clamp_gdp(region_base_gdp[region] + d.gdp),
     Social_support |-> d.social,
     Healthy_life_expectancy |-> d.health,
     Freedom |-> d.freedom,
     Generosity |-> d.generosity,
     Corruption |-> d.corruption,
     Region |-> region]

(***************************************************************************)
(* The row specification of the happiness generator.                       *)
(***************************************************************************)
\* np.random.seed(42); data = []; rank = 1
HappinessBegin ==
    /\ loop.gen = "idle"
    /\ loop' = [Idle EXCEPT !.gen = "happiness"]
    /\ row' = NoRow
    /\ ret' = NoReturn
    /\ UNCHANGED callVars

\* The loop body up to the row dictionary, its seven draws made.
HappinessBuildRow ==
    /\ loop.gen = "happiness"
    /\ loop.n < HappinessRows
    /\ row = NoRow
    /\ \E d \in HappinessDraws :
          LET c == HappinessOrder[loop.n + 1]
          IN  row' = HappinessRow(loop.n + 1, c.region, c.country, d)
    /\ UNCHANGED <<loop, ret>>
    /\ UNCHANGED callVars

\* data.append(row); rank += 1
HappinessAppend ==
    /\ loop.gen = "happiness"
    /\ row # NoRow
    /\ loop' = [loop EXCEPT !.n = @ + 1]
    /\ row' = NoRow
    /\ UNCHANGED ret
    /\ UNCHANGED callVars

\* The sort and the new ranks keep the rows' scores; return df
HappinessReturn ==
    /\ loop.gen = "happiness"
    /\ loop.n = HappinessRows
    /\ row = NoRow
    /\ ret' = Returned(loop)
    /\ loop' = Idle
    /\ row' = NoRow
    /\ UNCHANGED callVars

NextHappinessRows ==
    HappinessBegin \/ HappinessBuildRow \/ HappinessAppend \/ HappinessReturn

SpecHappinessRows == InitRows /\ [][NextHappinessRows]_vars

\* C5: every row the happiness generator appends, whatever the draws were,
\* has its score clamped into [2.0, 8.0] and its GDP into [0.3, 2.0], hence
\* 0 <= Happiness_score <= 10 and GDP_per_capita >= 0.
C5_HappinessInRange ==
    (loop.gen = "happiness" /\ row # NoRow) =>
        /\ 2000 <= row.Happiness_score /\ row.Happiness_score <= 8000
        /\ 300 <= row.GDP_per_capita /\ row.GDP_per_capita <= 2000
        /\ 0 <= row.Happiness_score /\ row.Happiness_score <= 10000
        /\ row.GDP_per_capita >= 0

\* A row of the region with the lowest bases, with the lowest draws.
C5_Witness ==
    /\ loop.gen = "happiness"
    /\ row # NoRow
    /\ row.Country = "Kenya"
    /\ row.Happiness_score = 3700
    /\ row.GDP_per_capita = 400


(***************************************************************************)
(* DataHandler._generate_airport_data                                      *)
(***************************************************************************)
\* The hubs, with their coordinates in hundredths of a degree.
airport_coordinates ==
    ("JFK" :> [lat |-> 4064, lon |-> -7378]) @@
    ("ATL" :> [lat |-> 3364, lon |-> -8443]) @@
    ("MIA" :> [lat |-> 2579, lon |-> -8029]) @@
    ("BOS" :> [lat |-> 4237, lon |-> -7101]) @@
    ("PHL" :> [lat |-> 3987, lon |-> -7524])

\* The destinations, in the insertion order of the dictionary.
destinations ==
    << [code |-> "LAX", name |-> "Los Angeles International",
        lat |-> 3394, lon |-> -11841, domestic |-> TRUE, region |-> "West Coast"],
       [code |-> "ORD", name |-> "Chicago O'Hare International",
        lat |-> 4198, lon |-> -8790, domestic |-> TRUE, region |-> "Midwest"],
       [code |-> "DFW", name |-> "Dallas/Fort Worth International",
        lat |-> 3290, lon |-> -9704, domestic |-> TRUE, region |-> "South"],
       [code |-> "DEN", name |-> "Denver International",
        lat |-> 3986, lon |-> -10467, domestic |-> TRUE, region |-> "Mountain"],
       [code |-> "SFO", name |-> "San Francisco International",
        lat |-> 3762, lon |-> -12238, domestic |-> TRUE, region |-> "West Coast"],
       [code |-> "SEA", name |-> "Seattle-Tacoma International",
        lat |-> 4745, lon |-> -12231, domestic |-> TRUE, region |-> "Northwest"],
       [code |-> "MCO", name |-> "Orlando International",
        lat |-> 2843, lon |-> -8131, domestic |-> TRUE, region |-> "Southeast"],
       [code |-> "LHR", name |-> "London Heathrow",
        lat |-> 5147, lon |-> -45, domestic |-> FALSE, region |-> "Europe"],
       [code |-> "CDG", name |-> "Paris Charles de Gaulle",
        lat |-> 4901, lon |-> 255, domestic |-> FALSE, region |-> "Europe"],
       [code |-> "FRA", name |-> "Frankfurt Airport",
        lat |-> 5004, lon |-> 856, domestic |-> FALSE, region |-> "Europe"],
       [code |-> "NRT", name |-> "Tokyo Narita International",
        lat |-> 3576, lon |-> 14039, domestic |-> FALSE, region |-> "Asia"],
       [code |-> "HKG", name |-> "Hong Kong International",
        lat |-> 2231, lon |-> 11392, domestic |-> FALSE, region |-> "Asia"],
       [code |-> "SYD", name |-> "Sydney Airport",
        lat |-> -3394, lon |-> 15118, domestic |-> FALSE, region |-> "Oceania"],
       [code |-> "GRU", name |-> "Sao Paulo/Guarulhos International",
        lat |-> -2344, lon |-> -4647, domestic |-> FALSE, region |-> "South America"] >>

airlines ==
    <<"American Airlines", "Delta Air Lines", "United Airlines",
      "Southwest Airlines", "JetBlue Airways", "British Airways",
      "Lufthansa", "Air France", "Emirates", "Qatar Airways">>

\* The p= of the two np.random.choice calls, in hundredths.
domestic_p_unnormalised == <<30, 25, 20, 15, 15>>
domestic_p == <<30, 25, 20, 15, 10>>
international_p == <<15, 15, 15, 5, 5, 10, 10, 10, 8, 7>>

RECURSIVE SumSeq(_)
SumSeq(q) == IF q = <<>> THEN 0 ELSE q[1] + SumSeq(Tail(q))

\* np.random.choice(a, p=p) raises ValueError when a and p differ in length
\* or the probabilities do not sum to 1.
choice_raises(a, p) == Len(a) # Len(p) \/ SumSeq(p) # 100

\* np.random.choice(a, p=p): any element of a that has a non-zero probability.
choice(a, p) == { a[j] : j \in { j \in 1..Len(a) : p[j] > 0 } }

\* The largest r of lo..hi with r * r <= x.
RECURSIVE IsqrtIn(_, _, _)
IsqrtIn(x, lo, hi) ==
    IF lo >= hi THEN lo
    ELSE LET m == (lo + hi + 1) \div 2
         IN  IF m * m <= x THEN IsqrtIn(x, m, hi) ELSE IsqrtIn(x, lo, m - 1)

\* np.sqrt(dlat**2 + dlon**2), in hundredths of a degree.
distance(source_info, dest_info) ==
    LET dlat == source_info.lat - dest_info.lat
        dlon == source_info.lon - dest_info.lon
    IN  IsqrtIn(dlat * dlat + dlon * dlon, 0, 32768)

base_flights(dest_info) == IF dest_info.domestic THEN 15 ELSE 8

\* num_flights without the final max(2, min(25, ...)).
num_flights_unclamped(source_info, dest_info) ==
    LET b == base_flights(dest_info)
        d == distance(source_info, dest_info)
    IN  Max((3 * b) \div 10, (b * 10000) \div (d + 5000))

\* int(base_flights * max(0.3, 1 / (distance * 0.01 + 0.5))), then clamped:
\* max(2, min(25, num_flights)).
num_flights(source_info, dest_info) ==
    LET b == base_flights(dest_info)
        d == distance(source_info, dest_info)
        n == Max((3 * b) \div 10, (b * 10000) \div (d + 5000))
    IN  Max(2, Min(25, n))

\* The airline draw made from the ten carriers for every destination.
airline_choice_any_carrier(dest_info) ==
    [a |-> airlines, p |-> international_p]

\* The airline draw of one flight: the list and the weights it is made with.
airline_choice(dest_info) ==
    IF dest_info.domestic
    THEN [a |-> SubSeq(airlines, 1, 5), p |-> domestic_p]
    ELSE [a |-> airlines, p |-> international_p]

\* The hour drawn over the whole day.
flight_hour_all_day == randint(0, 24)

\* "flight_hour": np.random.randint(5, 23)
flight_hour == randint(5, 23)

\* The flight dictionary of one pass of the inner loop, given its two draws.
FlightRow(airport_code, dest_info, airline, hour) ==
    [source_airport |-> airport_code,
     destination_airport |-> dest_info.code,
     destination_name |-> dest_info.name,
     destination_lat |-> dest_info.lat,
     destination_lon |-> dest_info.lon,
     airline |-> airline,
     flight_hour |-> hour,
     domestic |-> dest_info.domestic,
     region |-> dest_info.region,
     distance |-> distance(airport_coordinates[airport_code], dest_info) * 69]

\* The airport codes the model calls the generator with: the five hubs, a
\* destination that is no hub, a hub in lower case, the empty string and a
\* code of no airport.
AirportCodes == {"JFK", "ATL", "MIA", "BOS", "PHL", "LAX", "jfk", "", "XXX"}
Hubs == DOMAIN airport_coordinates

(***************************************************************************)
(* The row specification of the flight generator.                          *)
(***************************************************************************)
\* np.random.seed(..), the static tables, and the allow-list test:
\* if airport_code not in airport_coordinates: return pd.DataFrame()
AirportBegin ==
    /\ loop.gen = "idle"
    /\ \E airport_code \in AirportCodes :
          IF airport_code \notin Hubs
          THEN /\ ret' = [of |-> "airport", code |-> airport_code, rows |-> 0]
               /\ UNCHANGED loop
          ELSE /\ loop' = [Idle EXCEPT !.gen = "airport", !.code = airport_code,
                                       !.i = 1]
               /\ ret' = NoReturn
    /\ row' = NoRow
    /\ UNCHANGED callVars

\* One pass of the inner loop up to the flight dictionary, its two draws
\* made; an exception of np.random.choice leaves the generator.
AirportBuildRow ==
    /\ loop.gen = "airport"
    /\ loop.i <= Len(destinations)
    /\ row = NoRow
    /\ LET dest_info == destinations[loop.i]
           c == airline_choice(dest_info)
       IN  /\ loop.k < num_flights(airport_coordinates[loop.code], dest_info)
           /\ IF choice_raises(c.a, c.p)
              THEN /\ ret' = [of |-> "airport", code |-> loop.code,
                              raised |-> "ValueError"]
                   /\ loop' = Idle
                   /\ UNCHANGED row
              ELSE /\ \E airline \in choice(c.a, c.p), hour \in flight_hour :
                         row' = FlightRow(loop.code, dest_info, airline, hour)
                   /\ UNCHANGED <<loop, ret>>
    /\ UNCHANGED callVars

\* flights.append(flight)
AirportAppend ==
    /\ loop.gen = "airport"
    /\ row # NoRow
    /\ loop' = [loop EXCEPT !.n = @ + 1, !.k = @ + 1]
    /\ row' = NoRow
    /\ UNCHANGED ret
    /\ UNCHANGED callVars

\* The inner loop is over: on to the next destination.
AirportNextDestination ==
    /\ loop.gen = "airport"
    /\ loop.i <= Len(destinations)
    /\ row = NoRow
    /\ loop.k >= num_flights(airport_coordinates[loop.code], destinations[loop.i])
    /\ loop' = [loop EXCEPT !.i = @ + 1, !.k = 0]
    /\ UNCHANGED <<row, ret>>
    /\ UNCHANGED callVars

\* return pd.DataFrame(flights)
AirportReturn ==
    /\ loop.gen = "airport"
    /\ loop.i > Len(destinations)
    /\ ret' = Returned(loop)
    /\ loop' = Idle
    /\ row' = NoRow
    /\ UNCHANGED callVars

NextAirportRows ==
    \/ AirportBegin
    \/ AirportBuildRow
    \/ AirportAppend
    \/ AirportNextDestination
    \/ AirportReturn

SpecAirportRows == InitRows /\ [][NextAirportRows]_vars


\* C7: for every hub code c, whatever the draws were, each flight row has
\* source_airport = c, a boolean domestic flag and an integer flight_hour
\* with 5 <= flight_hour < 23, and the table returned for c is not empty.
C7_HubFlightRows ==
    /\ (loop.gen = "airport" /\ row # NoRow) =>
          /\ loop.code \in Hubs
          /\ row.source_airport = loop.code
          /\ row.domestic \in BOOLEAN
          /\ row.flight_hour \in Int
          /\ 5 <= row.flight_hour /\ row.flight_hour < 23
    /\ (ret.of = "airport" /\ ret.code \in Hubs) =>
          /\ "rows" \in DOMAIN ret
          /\ ret.rows > 0

\* The generator has returned the 161 flights of JFK.
C7_Witness ==
    /\ ret.of = "airport"
    /\ ret.code = "JFK"
    /\ "rows" \in DOMAIN ret
    /\ ret.rows = 161


(***************************************************************************)
(* The generators as whole calls, on the deterministic stream.  The        *)
(* operators take the stream (st), the sort's tie order (t) and the hash   *)
(* secret (hs) as parameters; the generators proper read them from the     *)
(* process.                                                                *)
(***************************************************************************)
\* The nine draws of row t (from 1) of the enrollment table, the first draw
\* of the table being draw 0 after g.
UniversityDrawsAt(st, g, t) ==
    LET j == 9 * (t - 1)
    IN  [apps |-> draw_randint(st, g, j, -100, 100),
         adm |-> draw_randint(st, g, j + 1, -50, 50),
         enr |-> draw_randint(st, g, j + 2, -30, 30),
         ret |-> draw_randint(st, g, j + 3, -3, 3),
         sat |-> draw_randint(st, g, j + 4, -4, 4),
         eng |-> draw_randint(st, g, j + 5, -8, 8),
         bus |-> draw_randint(st, g, j + 6, -6, 6),
         arts |-> draw_randint(st, g, j + 7, -5, 5),
         sci |-> draw_randint(st, g, j + 8, -4, 4)]

\* The loops of the enrollment generator run from generator state g: the
\* table and the generator state they leave.
UniversityTable(st, g) ==
    [table |-> [t \in 1..UniversityRows |->
                   LET it == UniversityIteration(t - 1)
                   IN  UniversityRow(it.year, it.term, UniversityDrawsAt(st, g, t))],
     rng |-> Advance(g, 9 * UniversityRows)]

\* np.random.seed(42) and the loops, per stream.
SeededUniversityTable == [st \in Streams |-> UniversityTable(st, seed(42))]

\* The generator without its first line: it draws from wherever the
\* process-wide generator stands.
generate_synthetic_university_data_unseeded(g0) == UniversityTable(stream, g0)

\* _generate_synthetic_university_data(), called with the process-wide
\* generator in state g0: np.random.seed(42), then the loops.
generate_synthetic_university_data(g0) == SeededUniversityTable[stream]

\* The seven draws of row t (from 1) of the happiness table.
HappinessDrawsAt(st, g, t) ==
    LET j == 7 * (t - 1)
    IN  [happiness |-> draw_uniform(st, g, j, -800, 800),
         gdp |-> draw_uniform(st, g, j + 1, -300, 300),
         social |-> draw_uniform(st, g, j + 2, 500, 1500),
         health |-> draw_uniform(st, g, j + 3, 500, 1500),
         freedom |-> draw_uniform(st, g, j + 4, 300, 1200),
         generosity |-> draw_uniform(st, g, j + 5, -200, 500),
         corruption |-> draw_uniform(st, g, j + 6, 0, 500)]

\* data, as the loops of the happiness generator leave it.
HappinessData(st, g) ==
    [t \in 1..HappinessRows |->
        LET c == HappinessOrder[t]
        IN  HappinessRow(t, c.region, c.country, HappinessDrawsAt(st, g, t))]

\* Whether row a of data comes before row b in the sorted table: the higher
\* score first, equal scores as the build's sort leaves them.
SortsBefore(t, data, a, b) ==
    \/ data[a].Happiness_score > data[b].Happiness_score
    \/ /\ data[a].Happiness_score = data[b].Happiness_score
       /\ IF t = "kept" THEN a < b ELSE a > b

\* sort_values with ascending=True.
sort_values_ascending(t, data) ==
    LET N == Len(data)
        place == [a \in 1..N |->
                     1 + Cardinality({ b \in 1..N : SortsBefore(t, data, a, b) })]
    IN  [q \in 1..N |-> data[CHOOSE a \in 1..N : place[a] = q]]

\* df.sort_values('Happiness_score', ascending=False).reset_index(drop=True)
sort_values(t, data) ==
    LET N == Len(data)
        place == [a \in 1..N |->
                     1 + Cardinality({ b \in 1..N : SortsBefore(t, data, b, a) })]
    IN  [q \in 1..N |-> data[CHOOSE a \in 1..N : place[a] = q]]

\* df['RANK'] = range(1, len(df) + 1)
assign_rank(df) == [q \in 1..Len(df) |-> [df[q] EXCEPT !.RANK = q]]

\* The happiness generator run from generator state g.
HappinessTable(st, t, g) ==
    [table |-> assign_rank(sort_values(t, HappinessData(st, g))),
     rng |-> Advance(g, 7 * HappinessRows)]

\* np.random.seed(42), the loops, the sort and the new ranks, per stream and
\* tie order.
SeededHappinessTable ==
    [st \in Streams |-> [t \in TieOrders |-> HappinessTable(st, t, seed(42))]]

\* _generate_synthetic_happiness_data()
generate_synthetic_happiness_data(g0) == SeededHappinessTable[stream][tie]

\* hash(s) of a string under hash secret hs: fixed within a process, another
\* number under another secret; it may be negative.
str_hash(hs, s) ==
    LET codes == <<"JFK", "ATL", "MIA", "BOS", "PHL", "LAX", "jfk", "", "XXX">>
        n == CHOOSE j \in 1..Len(codes) : codes[j] = s
    IN  ((n * 2654435 + (hs + 1) * 40503 * (n + 7)) % 1000003) - 500000

\* The element np.random.choice(a, p=p) returns as draw j after g: the first
\* one whose cumulated probability exceeds the uniform number drawn.
draw_choice(st, g, j, a, p) ==
    LET u == Scale(Raw(st, g, j), 100) \div 32768
        ix == CHOOSE m \in 1..Len(p) :
                 /\ SumSeq(SubSeq(p, 1, m)) > u
                 /\ \A l \in 1..(m - 1) : SumSeq(SubSeq(p, 1, l)) <= u
    IN  a[ix]

\* The flights of destinations i.. of the outer loop, off flights having been
\* made before them.
RECURSIVE FlightsFrom(_, _, _, _, _)
FlightsFrom(st, airport_code, g, i, off) ==
    IF i > Len(destinations) THEN <<>>
    ELSE LET dest_info == destinations[i]
             c == airline_choice(dest_info)
             n == num_flights(airport_coordinates[airport_code], dest_info)
         IN  [k \in 1..n |->
                 FlightRow(airport_code, dest_info,
                           draw_choice(st, g, 2 * (off + k - 1), c.a, c.p),
                           draw_randint(st, g, 2 * (off + k - 1) + 1, 5, 23))]
             \o FlightsFrom(st, airport_code, g, i + 1, off + n)

\* The number of flights made before destination i.
RECURSIVE FlightsBefore(_, _)
FlightsBefore(airport_code, i) ==
    IF i <= 1 THEN 0
    ELSE FlightsBefore(airport_code, i - 1)
         + num_flights(airport_coordinates[airport_code], destinations[i - 1])

\* The destinations whose airline draw raises.
RaisingDestinations ==
    { i \in 1..Len(destinations) :
        LET c == airline_choice(destinations[i]) IN choice_raises(c.a, c.p) }

\* The flight generator from the allow-list test on, run from generator
\* state g: the table (or the exception) and the generator state it leaves.
FlightTable(st, airport_code, g) ==
    IF airport_code \notin DOMAIN airport_coordinates
    THEN [table |-> <<>>, rng |-> g]
    ELSE IF RaisingDestinations # {}
    THEN [raised |-> "ValueError",
          rng |-> Advance(g, 2 * FlightsBefore(airport_code,
                                               SetMin(RaisingDestinations)))]
    ELSE [table |-> FlightsFrom(st, airport_code, g, 1, 0),
          rng |-> Advance(g, 2 * FlightsBefore(airport_code,
                                               Len(destinations) + 1))]

\* np.random.seed(hash(airport_code) % 1000) and the rest, per stream, hash
\* secret and airport code.
SeededFlightTable ==
    [st \in Streams |-> [hs \in HashSeeds |-> [airport_code \in AirportCodes |->
        FlightTable(st, airport_code, seed(str_hash(hs, airport_code) % 1000))]]]

\* _generate_airport_data(airport_code)
generate_airport_data(airport_code, g0) ==
    SeededFlightTable[stream][hashseed][airport_code]

(***************************************************************************)
(* DataHandler.load_airport_data, behind st.cache_data.                    *)
(***************************************************************************)
\* pd.DataFrame()
EmptyDataFrame == <<>>

\* The body of load_airport_data: the generator's table, or an empty table
\* when the generator raises.
load_airport_data_body(airport_code, g0) ==
    LET r == generate_airport_data(airport_code, g0)
    IN  IF "raised" \in DOMAIN r
        THEN [table |-> EmptyDataFrame, rng |-> r.rng]
        ELSE r

\* The key st.cache_data files a call under: the function and its arguments.
CacheKey(function, argument) == function \o "(" \o argument \o ")"

\* A memoised call: the body runs only when the key is not in the cache.
load_airport_data(airport_code, g0, c0) ==
    LET key == CacheKey("load_airport_data", airport_code)
    IN  IF key \in DOMAIN c0
        THEN [table |-> c0[key], rng |-> g0, cache |-> c0]
        ELSE LET r == load_airport_data_body(airport_code, g0)
             IN  [table |-> r.table, rng |-> r.rng,
                  cache |-> c0 @@ (key :> r.table)]


(***************************************************************************)
(* The call specification: any sequence of calls of the generators and of  *)
(* the flight loader, one call at a time, over runs of the program.        *)
(***************************************************************************)
\* MaxCalls calls are made in a run.
MaxCalls == 3

\* The first table returned under a key is remembered.
Remember(key, table) ==
    IF key \in DOMAIN seen THEN seen ELSE seen @@ (key :> table)

\* What a call returned: whose table it is, the call made (the generator
\* itself or the loader), and whether the same table was asked for before.
Return(of, code, via, key, r) ==
    IF "raised" \in DOMAIN r
    THEN [of |-> of, code |-> code, via |-> via, raised |-> r.raised]
    ELSE [of |-> of, code |-> code, via |-> via, table |-> r.table,
          again |-> key \in DOMAIN seen]

Init ==
    /\ loop = Idle
    /\ row = NoRow
    /\ ret = NoReturn
    /\ InitProcess

CallGenerateUniversity ==
    /\ calls < MaxCalls
    /\ LET r == generate_synthetic_university_data(rng)
       IN  /\ ret' = Return("university", "", "generate", "university", r)
           /\ rng' = r.rng
           /\ seen' = Remember("university", r.table)
    /\ calls' = calls + 1
    /\ UNCHANGED <<loop, row, hashseed, stream, tie, cache, disk>>

CallGenerateHappiness ==
    /\ calls < MaxCalls
    /\ LET r == generate_synthetic_happiness_data(rng)
       IN  /\ ret' = Return("happiness", "", "generate", "happiness", r)
           /\ rng' = r.rng
           /\ seen' = Remember("happiness", r.table)
    /\ calls' = calls + 1
    /\ UNCHANGED <<loop, row, hashseed, stream, tie, cache, disk>>

\* A call of _generate_airport_data(airport_code).
GenerateAirport(airport_code) ==
    /\ calls < MaxCalls
    /\ LET r == generate_airport_data(airport_code, rng)
           key == "airport " \o airport_code
       IN  /\ ret' = Return("airport", airport_code, "generate", key, r)
           /\ rng' = r.rng
           /\ seen' = IF "raised" \in DOMAIN r THEN seen
                      ELSE Remember(key, r.table)
    /\ calls' = calls + 1
    /\ UNCHANGED <<loop, row, hashseed, stream, tie, cache, disk>>

\* A call of load_airport_data(airport_code).
LoadAirport(airport_code) ==
    /\ calls < MaxCalls
    /\ LET r == load_airport_data(airport_code, rng, cache)
           key == "airport " \o airport_code
       IN  /\ ret' = Return("airport", airport_code, "load", key, r)
           /\ rng' = r.rng
           /\ cache' = r.cache
           /\ seen' = Remember(key, r.table)
    /\ calls' = calls + 1
    /\ UNCHANGED <<loop, row, hashseed, stream, tie, disk>>

\* The airport codes of the call specification: two hubs and a code that is
\* no hub.
CallCodes == {"JFK", "BOS", "XXX"}

CallGenerateAirport == \E airport_code \in CallCodes : GenerateAirport(airport_code)

CallLoadAirport == \E airport_code \in CallCodes : LoadAirport(airport_code)

\* The program ends and is started again: a new interpreter has a new hash
\* secret, numpy's generator as it comes, and an empty st.cache_data cache.
\* What the earlier runs returned stays remembered.
Restart ==
    /\ ret # NoReturn
    /\ calls < MaxCalls
    /\ hashseed' \in HashSeeds
    /\ rng' = Unseeded
    /\ cache' = <<>>
    /\ ret' = NoReturn
    /\ UNCHANGED <<loop, row, stream, tie, seen, calls, disk>>

Next ==
    \/ CallGenerateUniversity
    \/ CallGenerateHappiness
    \/ CallGenerateAirport
    \/ CallLoadAirport
    \/ Restart

Spec == Init /\ [][Next]_vars

\* C2: a flight table returned for an airport code that was asked for
\* before, by the generator or by the loader, is the table returned the first
\* time: same rows in the same order, airline and flight_hour included.
C2_FlightTableRepeats ==
    (ret.of = "airport" /\ "table" \in DOMAIN ret /\ ret.again)
        => ret.table = seen["airport " \o ret.code]

\* C3: an enrollment table, or a happiness table, returned by its generator
\* a second time is the table returned the first time, whatever calls were
\* made before or between the two.
C3_SeededTableRepeats ==
    (ret.of \in {"university", "happiness"} /\ ret.again)
        => ret.table = seen[ret.of]

\* The enrollment generator returns its table again, the happiness generator
\* having been called before or between.
C3_Witness ==
    /\ ret.of = "university" /\ ret.again
    /\ Len(ret.table) = UniversityRows
    /\ DOMAIN seen = {"university", "happiness"}

\* The place of a country in the order the happiness generator makes its
\* rows.
GenerationIndex(country) ==
    CHOOSE t \in 1..HappinessRows : HappinessOrder[t].country = country

\* C4: in the table the happiness generator returns, RANK is a permutation
\* of 1..N; of two rows the one with the smaller RANK has the greater or
\* equal Happiness_score; rows of equal score have their ranks in the order
\* they were generated in.
C4_RankFollowsScore ==
    ret.of = "happiness" =>
        LET T == ret.table
            N == Len(T)
        IN  /\ \A k \in 1..N : \E q \in 1..N : T[q].RANK = k
            /\ \A a, b \in 1..N :
                  /\ (a # b) => T[a].RANK # T[b].RANK
                  /\ T[a].RANK < T[b].RANK
                        => T[a].Happiness_score >= T[b].Happiness_score
                  /\ (T[a].Happiness_score = T[b].Happiness_score
                      /\ GenerationIndex(T[a].Country) < GenerationIndex(T[b].Country))
                        => T[a].RANK <= T[b].RANK

\* The happiness table is returned: 59 rows, Estonia first with 7.688 and
\* Rwanda last with 3.729, neither at the place it was generated at.
C4_Witness ==
    /\ ret.of = "happiness"
    /\ Len(ret.table) = 59
    /\ ret.table[1].Country = "Estonia" /\ ret.table[1].RANK = 1
    /\ ret.table[1].Happiness_score = 7688
    /\ GenerationIndex("Estonia") = 17
    /\ ret.table[59].Country = "Rwanda" /\ ret.table[59].RANK = 59
    /\ ret.table[59].Happiness_score = 3729

(***************************************************************************)
(* The loader specification: calls of the flight loader with any code,     *)
(* calls of the enrollment generator between them.                         *)
(***************************************************************************)
CallLoadAnyAirport == \E airport_code \in AirportCodes : LoadAirport(airport_code)

NextLoadAirport ==
    \/ CallLoadAnyAirport
    \/ CallGenerateUniversity

SpecLoadAirport == Init /\ [][NextLoadAirport]_vars

\* C6: the flight loader raises for no code, and the table it returns has
\* rows exactly when the code is one of JFK, ATL, MIA, BOS, PHL.
C6_LoaderNonEmptyIffHub ==
    (ret.of = "airport" /\ ret.via = "load") =>
        /\ "raised" \notin DOMAIN ret
        /\ "table" \in DOMAIN ret
        /\ (Len(ret.table) > 0) <=> (ret.code \in {"JFK", "ATL", "MIA", "BOS", "PHL"})

\* The loader has returned the 172 flights of ATL, and now an empty table
\* for the lower-case code jfk.
C6_Witness ==
    /\ ret.of = "airport" /\ ret.via = "load" /\ ret.code = "jfk"
    /\ ret.table = EmptyDataFrame
    /\ "airport ATL" \in DOMAIN seen
    /\ Len(seen["airport ATL"]) = 172

(***************************************************************************)
(* CSVValidator.validate_csv_structure                                     *)
(***************************************************************************)
\* A file of the model has at most MaxDataRows data rows.
MaxDataRows == 6

\* The header lines the files of the model have.
Headers ==
    { <<"Year", "Term", "Applications", "Admitted", "Enrolled">>,
      <<"Year", "Term", "Applications">>,
      <<"RANK", "Country", "Happiness_score", "GDP_per_capita">> }

\* What may be at a path: nothing (missing); something the existence test
\* itself fails on (stat_error: a directory above it that may not be
\* searched); a file of no bytes; a file that may not be opened; a file of
\* line ends only (blank); a file of bytes that are no text (undecodable);
\* a CSV file with a header, whose malformed row, if it has one, is one of
\* its data rows.
FileStates ==
    { File(k, <<>>, 0, 0) :
        k \in {"missing", "stat_error", "zero_bytes", "open_error", "blank",
               "undecodable"} }
    \cup { f \in { File("csv", h, n, b) :
                     h \in Headers, n \in 0..MaxDataRows, b \in 0..MaxDataRows } :
             f.bad <= f.rows }

\* The outcome of a Python expression: a value, or an exception raised.
Value(v) == [value |-> v]
Raised(type, text) == [raised |-> type, text |-> text]

Range(q) == { q[i] : i \in DOMAIN q }

\* file_path.exists() that takes anything it can stat the directory of for
\* present.
path_exists_of_parent(f) ==
    IF f.kind = "stat_error"
    THEN Raised("PermissionError", "[Errno 13] Permission denied")
    ELSE Value(TRUE)

\* file_path.exists()
path_exists(f) ==
    IF f.kind = "missing" THEN Value(FALSE)
    ELSE IF f.kind = "stat_error"
    THEN Raised("PermissionError", "[Errno 13] Permission denied")
    ELSE Value(TRUE)

\* file_path.stat().st_size
st_size(f) ==
    IF f.kind = "missing"
    THEN Raised("FileNotFoundError", "[Errno 2] No such file or directory")
    ELSE IF f.kind = "stat_error"
    THEN Raised("PermissionError", "[Errno 13] Permission denied")
    ELSE IF f.kind = "zero_bytes" THEN Value(0)
    ELSE Value(1 + Len(f.header) + f.rows)

\* pd.read_csv(file_path, nrows=nrows): the reader stops after nrows data
\* rows and does not look at the rows behind them.
read_csv(f, nrows) ==
    IF f.kind = "missing"
    THEN Raised("FileNotFoundError", "[Errno 2] No such file or directory")
    ELSE IF f.kind \in {"stat_error", "open_error"}
    THEN Raised("PermissionError", "[Errno 13] Permission denied")
    ELSE IF f.kind \in {"zero_bytes", "blank"}
    THEN Raised("EmptyDataError", "No columns to parse from file")
    ELSE IF f.kind = "undecodable"
    THEN Raised("UnicodeDecodeError", "'utf-8' codec can't decode byte")
    ELSE IF f.bad \in 1..Min(nrows, f.rows)
    THEN Raised("ParserError", "Error tokenizing data")
    ELSE Value([columns |-> f.header, rows |-> Min(nrows, f.rows)])

\* The column names of the model, and the place of each among them.
ColumnNames ==
    <<"Year", "Term", "Applications", "Admitted", "Enrolled",
      "Retention Rate (%)", "Student Satisfaction (%)",
      "RANK", "Country", "Happiness_score", "GDP_per_capita">>

ColumnIndex(c) == CHOOSE i \in 1..Len(ColumnNames) : ColumnNames[i] = c

\* The order a set of strings is iterated in: it follows the strings' hashes,
\* so the process's hash secret.
RECURSIVE set_iter(_, _)
set_iter(hs, S) ==
    IF S = {} THEN <<>>
    ELSE LET c == CHOOSE c \in S : \A d \in S :
                     IF hs = 0 THEN ColumnIndex(c) <= ColumnIndex(d)
                     ELSE ColumnIndex(c) >= ColumnIndex(d)
         IN  <<c>> \o set_iter(hs, S \ {c})

RECURSIVE join_repr(_)
join_repr(q) ==
    IF q = <<>> THEN ""
    ELSE "'" \o Head(q) \o "'" \o (IF Len(q) > 1 THEN ", " ELSE "")
         \o join_repr(Tail(q))

\* f"{missing_cols}"
set_repr(hs, S) == "{" \o join_repr(set_iter(hs, S)) \o "}"

\* The try block of validate_csv_structure, with the files d and the hash
\* secret hs: the pair it returns, or the exception it raises.
validate_csv_structure_try(file_path, expected_columns, d, hs) ==
    LET f == d[file_path]
        e == path_exists(f)
        z == st_size(f)
        r == read_csv(f, 5)
    IN  IF "raised" \in DOMAIN e THEN e
        ELSE IF ~e.value THEN Value(<<FALSE, "File not found: " \o file_path>>)
        ELSE IF "raised" \in DOMAIN z THEN z
        ELSE IF z.value = 0 THEN Value(<<FALSE, "File is empty">>)
        ELSE IF "raised" \in DOMAIN r THEN r
        ELSE IF r.value.rows = 0
        THEN Value(<<FALSE, "CSV file contains no data">>)
        ELSE LET missing_cols == Range(expected_columns) \ Range(r.value.columns)
             IN  IF expected_columns # <<>> /\ missing_cols # {}
                 THEN Value(<<FALSE, "Missing required columns: "
                                        \o set_repr(hs, missing_cols)>>)
                 ELSE Value(<<TRUE, "File structure is valid">>)

\* validate_csv_structure without its last handler, except Exception.
validate_csv_structure_two_handlers(file_path, expected_columns, d, hs) ==
    LET t == validate_csv_structure_try(file_path, expected_columns, d, hs)
    IN  IF "raised" \notin DOMAIN t THEN t
        ELSE IF t.raised = "EmptyDataError"
        THEN Value(<<FALSE, "CSV file is empty or corrupted">>)
        ELSE IF t.raised = "ParserError"
        THEN Value(<<FALSE, "CSV parsing error: " \o t.text>>)
        ELSE t

\* validate_csv_structure(file_path, expected_columns): the try block and
\* its three handlers.
validate_csv_structure(file_path, expected_columns, d, hs) ==
    LET t == validate_csv_structure_try(file_path, expected_columns, d, hs)
    IN  IF "raised" \notin DOMAIN t THEN t
        ELSE IF t.raised = "EmptyDataError"
        THEN Value(<<FALSE, "CSV file is empty or corrupted">>)
        ELSE IF t.raised = "ParserError"
        THEN Value(<<FALSE, "CSV parsing error: " \o t.text>>)
        ELSE Value(<<FALSE, "Unexpected error: " \o t.text>>)

\* The lists of expected columns the validator is called with: those of
\* validate_data_files, a shorter one and the empty one.
ExpectedColumnLists ==
    { <<>>,
      <<"Year", "Enrolled">>,
      <<"Year", "Term", "Applications", "Admitted", "Enrolled">>,
      <<"RANK", "Country", "Happiness_score", "GDP_per_capita">> }

\* The structure specification: anything is at the path, and the validator
\* is called.
InitFiles ==
    /\ loop = Idle
    /\ row = NoRow
    /\ ret = NoReturn
    /\ rng = Unseeded
    /\ hashseed \in HashSeeds
    /\ stream = 0
    /\ tie = "kept"
    /\ cache = <<>>
    /\ seen = <<>>
    /\ calls = 0
    /\ disk \in [Paths -> FileStates]

\* A call of validate_csv_structure.
ValidateCsvStructure ==
    /\ \E file_path \in Paths, expected_columns \in ExpectedColumnLists :
          LET r == validate_csv_structure(file_path, expected_columns, disk,
                                          hashseed)
          IN  ret' = IF "raised" \in DOMAIN r
                     THEN [of |-> "validate_csv_structure",
                           file_path |-> file_path,
                           expected_columns |-> expected_columns,
                           raised |-> r.raised]
                     ELSE [of |-> "validate_csv_structure",
                           file_path |-> file_path,
                           expected_columns |-> expected_columns,
                           returns |-> r.value]
    /\ UNCHANGED <<loop, row, callVars>>

SpecCsvStructure == InitFiles /\ [][ValidateCsvStructure]_vars

StartsWith(message, prefix) ==
    /\ Len(message) >= Len(prefix)
    /\ SubSeq(message, 1, Len(prefix)) = prefix

\* C8: called with a path nothing is at, validate_csv_structure raises
\* nothing and returns False with a message that starts with
\* "File not found: ".
C8_MissingFileNotFound ==
    (ret.of = "validate_csv_structure" /\ disk[ret.file_path].kind = "missing")
        => /\ "returns" \in DOMAIN ret
           /\ ret.returns[1] = FALSE
           /\ StartsWith(ret.returns[2], "File not found: ")

\* The validator has returned for the missing enrollment file.
C8_Witness ==
    /\ ret.of = "validate_csv_structure"
    /\ disk[ret.file_path].kind = "missing"
    /\ "returns" \in DOMAIN ret
    /\ ret.returns = <<FALSE, "File not found: data/raw/university_data.csv">>

\* The file is there, has bytes, and pd.read_csv reads all of it.
Parses(f) == f.kind = "csv" /\ f.bad = 0

\* The file is there, has bytes, and pd.read_csv reads its first n data rows.
FirstRowsParse(f, n) == f.kind = "csv" /\ f.bad \notin 1..n

HasColumns(f, expected_columns) ==
    expected_columns = <<>> \/ Range(expected_columns) \subseteq Range(f.header)

\* C9 as the claim states it: for every state of the file the validator
\* returns a pair of a boolean and a message and propagates no exception, and
\* it returns True exactly when the file exists, is not of zero bytes,
\* parses, has a data row and has every expected column.
C9_TrueIffFileParses ==
    ret.of = "validate_csv_structure" =>
        LET f == disk[ret.file_path]
        IN  /\ "returns" \in DOMAIN ret
            /\ ret.returns[1] \in BOOLEAN
            /\ Len(ret.returns[2]) > 0
            /\ (ret.returns[1] = TRUE) <=>
                  /\ f.kind # "missing"
                  /\ f.kind # "zero_bytes"
                  /\ Parses(f)
                  /\ f.rows >= 1
                  /\ HasColumns(f, ret.expected_columns)

\* C9, amended: for every state of the file the validator returns a pair of
\* a boolean and a message and propagates no exception, and it returns True
\* exactly when the file exists, is not of zero bytes, its first five data
\* rows parse, it has a data row and it has every expected column.
C9_TrueIffFirstRowsParse ==
    ret.of = "validate_csv_structure" =>
        LET f == disk[ret.file_path]
        IN  /\ "returns" \in DOMAIN ret
            /\ ret.returns[1] \in BOOLEAN
            /\ Len(ret.returns[2]) > 0
            /\ (ret.returns[1] = TRUE) <=>
                  /\ f.kind # "missing"
                  /\ f.kind # "zero_bytes"
                  /\ FirstRowsParse(f, 5)
                  /\ f.rows >= 1
                  /\ HasColumns(f, ret.expected_columns)

\* The validator has found a file valid whose sixth data row is malformed.
C9_Witness ==
    /\ ret.of = "validate_csv_structure"
    /\ disk[ret.file_path].kind = "csv"
    /\ disk[ret.file_path].rows = 6
    /\ disk[ret.file_path].bad = 6
    /\ "returns" \in DOMAIN ret
    /\ ret.returns = <<TRUE, "File structure is valid">>

(***************************************************************************)
(* DataIntegrityChecker.validate_university_data                           *)
(*                                                                         *)
(* A table (df) is a record of its set of columns and the sequence of its  *)
(* rows, a row a function from the columns to numbers.                     *)
(***************************************************************************)
\* A table of the model has at most MaxTableRows rows.
MaxTableRows == 2

digits == <<"0", "1", "2", "3", "4", "5", "6", "7", "8", "9">>

\* str(n) of a natural number
RECURSIVE str(_)
str(n) ==
    IF n < 10 THEN digits[n + 1]
    ELSE str(n \div 10) \o digits[(n % 10) + 1]

\* The rows of a table, by their index.
Index(df) == 1..Len(df.rows)

\* if not selected.empty: issues.append(f"Found {len(selected)} rows with ...")
Issue(n, what) ==
    IF n > 0 THEN << "Found " \o str(n) \o " rows with " \o what >> ELSE <<>>

\* invalid_years, with pd.Timestamp.now().year being current_year
invalid_years(df, current_year) ==
    IF "Year" \in df.columns
    THEN Cardinality({ i \in Index(df) :
            df.rows[i]["Year"] < 2000 \/ df.rows[i]["Year"] > current_year + 1 })
    ELSE 0

enrollment_cols == <<"Applications", "Admitted", "Enrolled">>

\* negative_values of one of the enrollment columns
negative_values(df, col) ==
    IF col \in df.columns THEN Cardinality({ i \in Index(df) : df.rows[i][col] < 0 }) ELSE 0

\* logical_errors with >= for >.
logical_errors_strict(df) ==
    IF \A i \in 1..Len(enrollment_cols) : enrollment_cols[i] \in df.columns
    THEN Cardinality({ i \in Index(df) :
            \/ df.rows[i]["Enrolled"] >= df.rows[i]["Admitted"]
            \/ df.rows[i]["Admitted"] >= df.rows[i]["Applications"] })
    ELSE 0

\* logical_errors, looked for only when the table has the three columns
logical_errors(df) ==
    IF \A i \in 1..Len(enrollment_cols) : enrollment_cols[i] \in df.columns
    THEN Cardinality({ i \in Index(df) :
            \/ df.rows[i]["Enrolled"] > df.rows[i]["Admitted"]
            \/ df.rows[i]["Admitted"] > df.rows[i]["Applications"] })
    ELSE 0

percentage_cols == <<"Retention Rate (%)", "Student Satisfaction (%)">>

\* invalid_pct of one of the percentage columns
invalid_pct(df, col) ==
    IF col \in df.columns
    THEN Cardinality({ i \in Index(df) : df.rows[i][col] < 0 \/ df.rows[i][col] > 100 })
    ELSE 0

\* validate_university_data that returns at the first issue it finds in the
\* years, and goes on to the other checks only when there is none.
validate_university_data_years_first(df, current_year) ==
    IF invalid_years(df, current_year) > 0
    THEN Issue(invalid_years(df, current_year), "invalid years")
    ELSE Issue(negative_values(df, enrollment_cols[1]), "negative " \o enrollment_cols[1])
         \o Issue(negative_values(df, enrollment_cols[2]), "negative " \o enrollment_cols[2])
         \o Issue(negative_values(df, enrollment_cols[3]), "negative " \o enrollment_cols[3])
         \o Issue(logical_errors(df), "illogical enrollment progression")
         \o Issue(invalid_pct(df, percentage_cols[1]),
                  "invalid " \o percentage_cols[1] \o " (should be 0-100)")
         \o Issue(invalid_pct(df, percentage_cols[2]),
                  "invalid " \o percentage_cols[2] \o " (should be 0-100)")

\* validate_university_data(df): the issues, in the order they are appended.
validate_university_data(df, current_year) ==
    Issue(invalid_years(df, current_year), "invalid years")
    \o Issue(negative_values(df, enrollment_cols[1]), "negative " \o enrollment_cols[1])
    \o Issue(negative_values(df, enrollment_cols[2]), "negative " \o enrollment_cols[2])
    \o Issue(negative_values(df, enrollment_cols[3]), "negative " \o enrollment_cols[3])
    \o Issue(logical_errors(df), "illogical enrollment progression")
    \o Issue(invalid_pct(df, percentage_cols[1]),
             "invalid " \o percentage_cols[1] \o " (should be 0-100)")
    \o Issue(invalid_pct(df, percentage_cols[2]),
             "invalid " \o percentage_cols[2] \o " (should be 0-100)")

\* The columns the checker reads.
CheckedColumns == Range(enrollment_cols) \cup Range(percentage_cols) \cup {"Year"}

\* The sets of columns the tables of the model have.
ColumnSets ==
    { CheckedColumns,
      CheckedColumns \ {"Applications"},
      CheckedColumns \ {"Enrolled"},
      {"Year", "Retention Rate (%)"} }

\* The rows a table of the model starts with: values inside and outside of
\* what the checker accepts.
FirstRows ==
    { ("Year" :> y @@ "Applications" :> a @@ "Admitted" :> m @@ "Enrolled" :> e
       @@ "Retention Rate (%)" :> p @@ "Student Satisfaction (%)" :> q) :
        y \in {1999, 2020, 2027}, a \in {-5, 100}, m \in {-5, 50, 150},
        e \in {-5, 50, 80}, p \in {90, 101}, q \in {-1, 95} }

\* The rows it goes on with: one the checker accepts, one with more enrolled
\* than admitted.
MoreRows ==
    { ("Year" :> 2021 @@ "Applications" :> 100 @@ "Admitted" :> 60
       @@ "Enrolled" :> e @@ "Retention Rate (%)" :> 88
       @@ "Student Satisfaction (%)" :> 80) : e \in {30, 70} }

\* The tables the checker is called with.
UniversityTables ==
    LET tails == UNION { [1..k -> MoreRows] : k \in 0..(MaxTableRows - 1) }
        lists == {<<>>} \cup { <<r>> \o t : r \in FirstRows, t \in tails }
    IN  { [columns |-> c,
           rows |-> [i \in 1..Len(l) |-> [k \in c |-> l[i][k]]]] :
            c \in ColumnSets, l \in lists }

\* The years the clock may show when the checker is called.
Clock == {2024, 2026}

\* A call of validate_university_data, the first of the run.
ValidateUniversityData ==
    /\ ret = NoReturn
    /\ \E df \in UniversityTables, current_year \in Clock :
          ret' = [of |-> "validate_university_data", df |-> df,
                  current_year |-> current_year,
                  issues |-> validate_university_data(df, current_year),
                  after |-> df]
    /\ UNCHANGED <<loop, row, callVars>>

SpecUniversityChecker == InitRows /\ [][ValidateUniversityData]_vars

Mentions(message, words) ==
    \E i \in 1..(Len(message) - Len(words) + 1) :
        SubSeq(message, i, i + Len(words) - 1) = words

\* The values of a row, but for Enrolled against Admitted, are what the
\* checker accepts: the year from 2000 to next year, no negative count, no
\* more admitted than applied, percentages from 0 to 100.
RowInRangeButEnrolled(c, r, current_year) ==
    /\ "Year" \in c => r["Year"] \in 2000..(current_year + 1)
    /\ \A col \in Range(enrollment_cols) \cap c : r[col] >= 0
    /\ \A col \in Range(percentage_cols) \cap c : r[col] \in 0..100
    /\ {"Admitted", "Applications"} \subseteq c => r["Admitted"] <= r["Applications"]

RowInRange(c, r, current_year) ==
    /\ RowInRangeButEnrolled(c, r, current_year)
    /\ {"Enrolled", "Admitted"} \subseteq c => r["Enrolled"] <= r["Admitted"]

RowOverEnrolled(c, r, current_year) ==
    /\ RowInRangeButEnrolled(c, r, current_year)
    /\ {"Enrolled", "Admitted"} \subseteq c
    /\ r["Enrolled"] > r["Admitted"]

\* One row of the table has Enrolled > Admitted, and every other value of
\* the table is in range.
OneRowOverEnrolled(df, current_year) ==
    \E i \in 1..Len(df.rows) :
        /\ RowOverEnrolled(df.columns, df.rows[i], current_year)
        /\ \A j \in 1..Len(df.rows) :
              j # i => RowInRange(df.columns, df.rows[j], current_year)

AllInRange(df, current_year) ==
    \A i \in 1..Len(df.rows) : RowInRange(df.columns, df.rows[i], current_year)

\* C10 as the claim states it: of a table with one row where
\* Enrolled > Admitted and every other value in range the checker returns
\* one issue, which mentions "illogical enrollment progression"; of a table
\* whose values are all in range it returns the empty list.
C10_OverEnrolledRowOneIssue ==
    ret.of = "validate_university_data" =>
        /\ OneRowOverEnrolled(ret.df, ret.current_year)
              => /\ Len(ret.issues) = 1
                 /\ Mentions(ret.issues[1], "illogical enrollment progression")
        /\ AllInRange(ret.df, ret.current_year) => ret.issues = <<>>

\* C10, amended: of a table that has the Applications, Admitted and Enrolled
\* columns, with one row where Enrolled > Admitted and every other value in
\* range, the checker returns one issue, which mentions "illogical
\* enrollment progression"; of a table whose values are all in range it
\* returns the empty list.
C10_ThreeColumnsOneIssue ==
    ret.of = "validate_university_data" =>
        /\ (/\ Range(enrollment_cols) \subseteq ret.df.columns
            /\ OneRowOverEnrolled(ret.df, ret.current_year))
              => /\ Len(ret.issues) = 1
                 /\ Mentions(ret.issues[1], "illogical enrollment progression")
        /\ AllInRange(ret.df, ret.current_year) => ret.issues = <<>>

\* The checker has returned the one issue of a table of two rows, all
\* columns, whose first row has 80 enrolled of 50 admitted.
C10_Witness ==
    /\ ret.of = "validate_university_data"
    /\ ret.df.columns = CheckedColumns
    /\ Len(ret.df.rows) = 2
    /\ ret.df.rows[1]["Enrolled"] = 80 /\ ret.df.rows[1]["Admitted"] = 50
    /\ OneRowOverEnrolled(ret.df, ret.current_year)
    /\ ret.issues = <<"Found 1 rows with illogical enrollment progression">>

\* Whether some row of the table has the columns cols and values of them
\* that make the k-th check class of the claim fail: 1 the year window,
\* 2..4 a negative Applications, Admitted, Enrolled, 5 the enrollment
\* progression, 6 and 7 the range of the two percentages.
ClassViolated(k, df, current_year) ==
    LET has(cols) == cols \subseteq df.columns
        some(cols, bad(_)) ==
            has(cols) /\ \E i \in 1..Len(df.rows) : bad(df.rows[i])
    IN  CASE k = 1 -> some({"Year"}, LAMBDA r :
                          r["Year"] \notin 2000..(current_year + 1))
          [] k = 2 -> some({"Applications"}, LAMBDA r : r["Applications"] < 0)
          [] k = 3 -> some({"Admitted"}, LAMBDA r : r["Admitted"] < 0)
          [] k = 4 -> some({"Enrolled"}, LAMBDA r : r["Enrolled"] < 0)
          [] k = 5 -> some({"Applications", "Admitted", "Enrolled"}, LAMBDA r :
                          ~(r["Enrolled"] <= r["Admitted"]
                            /\ r["Admitted"] <= r["Applications"]))
          [] k = 6 -> some({"Retention Rate (%)"}, LAMBDA r :
                          r["Retention Rate (%)"] \notin 0..100)
          [] k = 7 -> some({"Student Satisfaction (%)"}, LAMBDA r :
                          r["Student Satisfaction (%)"] \notin 0..100)

\* The words an issue of the k-th class is known by.
ClassWords ==
    <<"invalid years", "negative Applications", "negative Admitted",
      "negative Enrolled", "illogical enrollment progression",
      "invalid Retention Rate (%)", "invalid Student Satisfaction (%)">>

\* The words of the violated classes from the k-th on, in the fixed order.
RECURSIVE ViolatedFrom(_, _, _)
ViolatedFrom(k, df, current_year) ==
    IF k > Len(ClassWords) THEN <<>>
    ELSE (IF ClassViolated(k, df, current_year) THEN <<ClassWords[k]>> ELSE <<>>)
         \o ViolatedFrom(k + 1, df, current_year)

\* C11: the list validate_university_data returns has one string for each
\* violated check class and no other, in the order year window, negative
\* Applications, negative Admitted, negative Enrolled, enrollment
\* progression, Retention Rate range, Student Satisfaction range: no
\* violation suppresses or doubles the report of another.
C11_OneIssuePerViolatedClass ==
    ret.of = "validate_university_data" =>
        LET w == ViolatedFrom(1, ret.df, ret.current_year)
        IN  /\ Len(ret.issues) = Len(w)
            /\ \A i \in 1..Len(w) :
                  /\ Mentions(ret.issues[i], w[i])
                  /\ \A k \in 1..Len(ClassWords) :
                        Mentions(ret.issues[i], ClassWords[k]) => ClassWords[k] = w[i]

\* The checker has returned seven issues, one of each class, of a table of
\* two rows.
C11_Witness ==
    /\ ret.of = "validate_university_data"
    /\ Len(ret.df.rows) = 2
    /\ Len(ret.issues) = 7
    /\ ret.issues[1] = "Found 1 rows with invalid years"
    /\ ret.issues[5] = "Found 1 rows with illogical enrollment progression"

(***************************************************************************)
(* Tables with text and missing values.  A cell is a number, a text or     *)
(* the missing-value marker (NaN, None); a number of a happiness column is *)
(* held in thousandths.                                                    *)
(***************************************************************************)
Num(n) == [t |-> "num", n |-> n, s |-> ""]
Text(s) == [t |-> "str", n |-> 0, s |-> s]
NaN == [t |-> "nan", n |-> 0, s |-> ""]

\* cell < n and cell > n, both False of a missing value.
Lt(cell, n) == cell.t = "num" /\ cell.n < n
Gt(cell, n) == cell.t = "num" /\ cell.n > n

\* Series.isnull()
isnull(cell) == cell.t = "nan"

(***************************************************************************)
(* DataIntegrityChecker.validate_happiness_data                            *)
(***************************************************************************)
\* invalid_scores with the two ends of the interval taken for invalid.
invalid_scores_open(df) ==
    IF "Happiness_score" \in df.columns
    THEN Cardinality({ i \in Index(df) :
            \/ ~Gt(df.rows[i]["Happiness_score"], 0)
            \/ ~Lt(df.rows[i]["Happiness_score"], 10000) })
    ELSE 0

\* invalid_scores
invalid_scores(df) ==
    IF "Happiness_score" \in df.columns
    THEN Cardinality({ i \in Index(df) :
            \/ Lt(df.rows[i]["Happiness_score"], 0)
            \/ Gt(df.rows[i]["Happiness_score"], 10000) })
    ELSE 0

\* invalid_gdp
invalid_gdp(df) ==
    IF "GDP_per_capita" \in df.columns
    THEN Cardinality({ i \in Index(df) : Lt(df.rows[i]["GDP_per_capita"], 0) })
    ELSE 0

\* empty_countries
empty_countries(df) ==
    IF "Country" \in df.columns
    THEN Cardinality({ i \in Index(df) :
            isnull(df.rows[i]["Country"]) \/ df.rows[i]["Country"] = Text("") })
    ELSE 0

\* validate_happiness_data(df)
validate_happiness_data(df) ==
    Issue(invalid_scores(df), "invalid happiness scores (should be 0-10)")
    \o Issue(invalid_gdp(df), "negative GDP values")
    \o Issue(empty_countries(df), "missing country names")

HappinessCheckedColumns == {"Happiness_score", "GDP_per_capita", "Country"}

\* The sets of columns the happiness tables of the model have.
HappinessColumnSets ==
    { HappinessCheckedColumns } \cup
    { HappinessCheckedColumns \ {c} : c \in HappinessCheckedColumns }

\* The rows a happiness table of the model starts with: scores and GDP at,
\* inside and outside the ends the checker accepts, or missing; a country
\* name, the empty name or none.
HappinessFirstRows ==
    { ("Happiness_score" :> h @@ "GDP_per_capita" :> g @@ "Country" :> c) :
        h \in {Num(-1), Num(0), Num(5000), Num(10000), Num(10001), NaN},
        g \in {Num(-1), Num(0), Num(1200), NaN},
        c \in {Text("Finland"), Text(""), NaN} }

\* The rows it goes on with.
HappinessMoreRows ==
    { ("Happiness_score" :> Num(10000) @@ "GDP_per_capita" :> Num(0)
       @@ "Country" :> Text("Norway")),
      ("Happiness_score" :> Num(12000) @@ "GDP_per_capita" :> Num(-300)
       @@ "Country" :> Text("")) }

\* The tables validate_happiness_data is called with.
HappinessTables ==
    LET tails == UNION { [1..k -> HappinessMoreRows] : k \in 0..(MaxTableRows - 1) }
        lists == {<<>>} \cup { <<r>> \o t : r \in HappinessFirstRows, t \in tails }
    IN  { [columns |-> c,
           rows |-> [i \in 1..Len(l) |-> [k \in c |-> l[i][k]]]] :
            c \in HappinessColumnSets, l \in lists }

\* A call of validate_happiness_data, the first of the run.
ValidateHappinessData ==
    /\ ret = NoReturn
    /\ \E df \in HappinessTables :
          ret' = [of |-> "validate_happiness_data", df |-> df,
                  issues |-> validate_happiness_data(df), after |-> df]
    /\ UNCHANGED <<loop, row, callVars>>

SpecHappinessChecker == InitRows /\ [][ValidateHappinessData]_vars

\* C12: validate_happiness_data returns the empty list exactly when no row
\* has a Happiness_score below 0 or above 10, no row has a GDP_per_capita
\* below 0 and no row has a null or empty Country; the scores 0 and 10 and
\* the GDP 0 are accepted.
C12_EmptyIffAllAccepted ==
    ret.of = "validate_happiness_data" =>
        LET df == ret.df
            has(i, col) == col \in df.columns /\ df.rows[i][col].t # "nan"
        IN  (ret.issues = <<>>) <=>
               \A i \in 1..Len(df.rows) :
                  /\ has(i, "Happiness_score")
                        => df.rows[i]["Happiness_score"].n \in 0..10000
                  /\ has(i, "GDP_per_capita")
                        => df.rows[i]["GDP_per_capita"].n >= 0
                  /\ "Country" \in df.columns
                        => /\ df.rows[i]["Country"].t = "str"
                           /\ df.rows[i]["Country"].s # ""

\* The checker has returned the empty list of a table whose rows have the
\* scores 0 and 10 and the GDP 0.
C12_Witness ==
    /\ ret.of = "validate_happiness_data"
    /\ ret.df.columns = HappinessCheckedColumns
    /\ Len(ret.df.rows) = 2
    /\ ret.df.rows[1]["Happiness_score"] = Num(0)
    /\ ret.df.rows[1]["GDP_per_capita"] = Num(0)
    /\ ret.df.rows[2]["Happiness_score"] = Num(10000)
    /\ ret.issues = <<>>

(***************************************************************************)
(* CSVValidator.clean_csv_data                                             *)
(*                                                                         *)
(* A frame is a record of its columns (in order), the dtype of each, the   *)
(* index labels of its rows and the rows, a row a function from the        *)
(* columns to cells.  A column that holds a text has dtype object, as      *)
(* pd.read_csv leaves it; its other cells are texts or missing.            *)
(***************************************************************************)
IsDigit(c) == \E d \in 1..Len(digits) : digits[d] = c
DigitOf(c) == (CHOOSE d \in 1..Len(digits) : digits[d] = c) - 1

\* int(q) of a text of digits (0 of the empty text)
RECURSIVE IntOf(_)
IntOf(q) ==
    IF Len(q) = 0 THEN 0
    ELSE IntOf(SubSeq(q, 1, Len(q) - 1)) * 10 + DigitOf(SubSeq(q, Len(q), Len(q)))

\* Series.str.replace(',', '.') on one text
RECURSIVE str_replace_comma(_)
str_replace_comma(s) ==
    IF Len(s) = 0 THEN ""
    ELSE (IF SubSeq(s, 1, 1) = "," THEN "." ELSE SubSeq(s, 1, 1))
         \o str_replace_comma(SubSeq(s, 2, Len(s)))

\* pd.to_numeric(..., errors='coerce') on one text: a decimal numeral (an
\* optional minus sign, digits, at most one point) gives its number, in
\* thousandths, anything else the missing-value marker.
to_numeric_text(s) ==
    LET neg == Len(s) > 0 /\ SubSeq(s, 1, 1) = "-"
        b == IF neg THEN SubSeq(s, 2, Len(s)) ELSE s
        dots == { i \in 1..Len(b) : SubSeq(b, i, i) = "." }
        d == IF dots = {} THEN Len(b) + 1 ELSE CHOOSE i \in dots : TRUE
        ip == SubSeq(b, 1, d - 1)
        fp == SubSeq(b, d + 1, Len(b))
        ok == /\ Cardinality(dots) <= 1
              /\ Len(ip) + Len(fp) >= 1
              /\ \A i \in 1..Len(b) : i = d \/ IsDigit(SubSeq(b, i, i))
        magnitude == IntOf(ip) * 1000 + IntOf(SubSeq(fp \o "000", 1, 3))
    IN  IF ~ok THEN NaN
        ELSE Num(IF neg THEN 0 - magnitude ELSE magnitude)

\* Series.astype(str) on one cell of an object column
astype_str(cell) == IF cell.t = "nan" THEN Text("nan") ELSE cell

\* placeholder_values
placeholder_values == <<"xx", "XX", "N/A", "n/a", "NULL", "null", "">>

\* Series.isin(placeholder_values) on one cell
isin_placeholders(cell) ==
    cell.t = "str" /\ \E k \in 1..Len(placeholder_values) : cell.s = placeholder_values[k]

\* The rows of a frame whose index labels are in keep, in their order.
RECURSIVE KeptPositions(_, _, _)
KeptPositions(f, keep, i) ==
    IF i > Len(f.index) THEN <<>>
    ELSE (IF f.index[i] \in keep THEN <<i>> ELSE <<>>)
         \o KeptPositions(f, keep, i + 1)

\* df[mask]: the frame of the rows whose index labels are in keep.
Select(f, keep) ==
    LET pos == KeptPositions(f, keep, 1)
    IN  [f EXCEPT !.index = [j \in 1..Len(pos) |-> f.index[pos[j]]],
                  !.rows = [j \in 1..Len(pos) |-> f.rows[pos[j]]]]

\* df.dropna() with how='any': drops every row that misses a value.
dropna_any(f) ==
    Select(f, { f.index[i] : i \in { j \in 1..Len(f.rows) :
                    \A c \in Range(f.columns) : ~isnull(f.rows[j][c]) } })

\* df.dropna(how='all')
dropna_all(f) ==
    Select(f, { f.index[i] : i \in { j \in 1..Len(f.rows) :
                    \E c \in Range(f.columns) : ~isnull(f.rows[j][c]) } })

\* One turn of the placeholder loop: column col, if its dtype is object.
remove_placeholders_in(f, col) ==
    IF f.dtypes[col] = "object"
    THEN Select(f, { f.index[i] : i \in { j \in 1..Len(f.rows) :
                        ~isin_placeholders(f.rows[j][col]) } })
    ELSE f

\* The placeholder loop over the columns from the k-th on.
RECURSIVE remove_placeholders(_, _)
remove_placeholders(f, k) ==
    IF k > Len(f.columns) THEN f
    ELSE remove_placeholders(remove_placeholders_in(f, f.columns[k]), k + 1)

\* A numeric loop turn that drops the rows whose value does not parse.
convert_numeric_dropping(f, col) ==
    IF col \notin Range(f.columns) THEN f
    ELSE LET parsed(cell) ==
                 IF f.dtypes[col] = "object"
                 THEN to_numeric_text(str_replace_comma(astype_str(cell).s))
                 ELSE cell
             g == [f EXCEPT
                     !.rows = [j \in 1..Len(f.rows) |->
                                 [f.rows[j] EXCEPT ![col] = parsed(@)]],
                     !.dtypes = [@ EXCEPT ![col] = "float64"]]
         IN  Select(g, { g.index[i] : i \in { j \in 1..Len(g.rows) :
                            ~isnull(g.rows[j][col]) } })

\* One turn of the numeric loop: column col, if the frame has it.
convert_numeric_in(f, col) ==
    IF col \notin Range(f.columns) THEN f
    ELSE [f EXCEPT
            !.rows = [j \in 1..Len(f.rows) |->
                        [f.rows[j] EXCEPT ![col] =
                            IF f.dtypes[col] = "object"
                            THEN to_numeric_text(str_replace_comma(astype_str(@).s))
                            ELSE @]],
            !.dtypes = [@ EXCEPT ![col] = "float64"]]

\* The numeric loop over the listed columns from the k-th on.
RECURSIVE convert_numeric(_, _, _)
convert_numeric(f, numeric_columns, k) ==
    IF k > Len(numeric_columns) THEN f
    ELSE convert_numeric(convert_numeric_in(f, numeric_columns[k]),
                         numeric_columns, k + 1)

\* A cleaner that works on the table it was given rather than on a copy.
clean_csv_data_in_place(df, numeric_columns) ==
    LET cleaned == convert_numeric(remove_placeholders(dropna_all(df), 1),
                                   numeric_columns, 1)
    IN  [returns |-> cleaned, df |-> cleaned]

\* clean_csv_data(df, numeric_columns): the table returned, and the caller's
\* table as the call leaves it.  numeric_columns is <<>> for None.
clean_csv_data(df, numeric_columns) ==
    LET copied == df
        dropped == dropna_all(copied)
        filtered == remove_placeholders(dropped, 1)
        df_cleaned == convert_numeric(filtered, numeric_columns, 1)
    IN  [returns |-> df_cleaned, df |-> df]

\* The dtype pd.read_csv gives a column of these cells.
infer_dtype(cells) ==
    IF \E c \in cells : c.t = "str" THEN "object" ELSE "float64"

\* The frame of the given rows, as pd.read_csv builds it.
DataFrame(columns, rows) ==
    [columns |-> columns,
     dtypes |-> [c \in Range(columns) |->
                    infer_dtype({ rows[i][c] : i \in DOMAIN rows })],
     index |-> [i \in 1..Len(rows) |-> i - 1],
     rows |-> rows]

\* The tables the cleaner is run on: a text column and a column of numbers,
\* the latter read either as text (decimal commas, words, placeholders) or as
\* numbers.
CleanerColumns == <<"Country", "Happiness_score">>
CountryCells == {Text("Finland"), Text("xx"), Text("Null"), Text(""), NaN}
ScoreTexts == {Text("7,5"), Text("abc"), Text("N/A"), NaN}
ScoreNumbers == {Num(7500), NaN}
CleanerRows(scores) ==
    { [c \in Range(CleanerColumns) |-> IF c = "Country" THEN a ELSE b] :
        a \in CountryCells, b \in scores }
CleanerTables ==
    UNION { { DataFrame(CleanerColumns, rows) :
                rows \in [1..n -> CleanerRows(ScoreTexts)]
                         \cup [1..n -> CleanerRows(ScoreNumbers)] } :
            n \in 0..MaxTableRows }

\* numeric_columns: None, a column of the table, a column the table lacks
\* beside it.
NumericColumnLists ==
    {<<>>, <<"Happiness_score">>, <<"GDP_per_capita", "Happiness_score">>}

\* A first call of the cleaner.
CleanCsvData ==
    /\ calls = 0
    /\ ret = NoReturn
    /\ \E df \in CleanerTables, numeric_columns \in NumericColumnLists :
         LET r == clean_csv_data(df, numeric_columns)
         IN  ret' = [of |-> "clean_csv_data", df |-> df,
                     numeric_columns |-> numeric_columns,
                     returns |-> r.returns, after |-> r.df]
    /\ calls' = 1
    /\ UNCHANGED <<loop, row, rng, hashseed, stream, tie, cache, seen, disk>>

\* The cleaner run again on the table it returned, with the same list.
CleanCsvDataAgain ==
    /\ calls = 1
    /\ ret.of = "clean_csv_data"
    /\ LET r == clean_csv_data(ret.returns, ret.numeric_columns)
       IN  ret' = [of |-> "clean_csv_data", df |-> ret.returns,
                   numeric_columns |-> ret.numeric_columns,
                   returns |-> r.returns, after |-> r.df]
    /\ calls' = 2
    /\ UNCHANGED <<loop, row, rng, hashseed, stream, tie, cache, seen, disk>>

NextCleaner == CleanCsvData \/ CleanCsvDataAgain
SpecCleaner == InitRows /\ [][NextCleaner]_vars

\* The rows of a table that are fully empty / that hold one of the cleaner's
\* placeholder tokens in a text column, by index label.
FullyEmpty(f) ==
    { f.index[i] : i \in { j \in 1..Len(f.rows) :
        \A c \in Range(f.columns) : isnull(f.rows[j][c]) } }
HoldsPlaceholder(f) ==
    { f.index[i] : i \in { j \in 1..Len(f.rows) :
        \E c \in Range(f.columns) : isin_placeholders(f.rows[j][c]) } }

\* C13: the cleaner, run on a table it has already cleaned (with the same
\* list of numeric columns) that holds no placeholder token and no fully
\* empty row, returns a table equal to it: same rows, same order, same values.
C13_CleanAgainReturnsInput ==
    (/\ ret.of = "clean_csv_data"
     /\ calls = 2
     /\ FullyEmpty(ret.df) = {}
     /\ HoldsPlaceholder(ret.df) = {})
    => ret.returns = ret.df

\* A second run on a two-row table whose numbers the first run parsed from
\* text, one of them to the missing-value marker.
C13_Witness ==
    /\ ret.of = "clean_csv_data"
    /\ calls = 2
    /\ FullyEmpty(ret.df) = {}
    /\ HoldsPlaceholder(ret.df) = {}
    /\ Len(ret.df.rows) = 2
    /\ ret.numeric_columns = <<"Happiness_score">>
    /\ ret.df.rows[1]["Happiness_score"] = Num(7500)
    /\ ret.df.rows[2]["Happiness_score"] = NaN
    /\ ret.returns = ret.df

\* str.lower() of a text, for the letters of the placeholder tokens.
UpperCase == <<"A", "L", "N", "U", "X">>
LowerCase == <<"a", "l", "n", "u", "x">>
RECURSIVE Lower(_)
Lower(s) ==
    IF Len(s) = 0 THEN ""
    ELSE LET c == SubSeq(s, 1, 1)
             ks == { k \in 1..Len(UpperCase) : UpperCase[k] = c }
         IN  (IF ks = {} THEN c ELSE LowerCase[CHOOSE k \in ks : TRUE])
             \o Lower(SubSeq(s, 2, Len(s)))

\* A text cell that is a placeholder token in some letter case.
PlaceholderAnyCase(cell) ==
    cell.t = "str" /\ Lower(cell.s) \in {"xx", "n/a", "null", ""}

\* The rows that hold such a cell, by index label.
HoldsPlaceholderAnyCase(f) ==
    { f.index[i] : i \in { j \in 1..Len(f.rows) :
        \E c \in Range(f.columns) : PlaceholderAnyCase(f.rows[j][c]) } }

\* C14: after clean_csv_data no row of the result holds a placeholder token
\* ("xx", "N/A", "NULL", the empty string) in any letter case, and every
\* input row that held one is absent from the result.
C14_NoPlaceholderInAnyCase ==
    ret.of = "clean_csv_data"
    => /\ HoldsPlaceholderAnyCase(ret.returns) = {}
       /\ HoldsPlaceholderAnyCase(ret.df) \cap Range(ret.returns.index) = {}

\* The row of a table with the given index label.
RowAt(f, label) == f.rows[CHOOSE i \in 1..Len(f.index) : f.index[i] = label]

\* What the numeric loop is to leave of the texts of the tables: the decimal
\* numeral with a comma as its number, the word as the missing-value marker.
Coerced(cell) ==
    IF cell = Text("7,5") THEN Num(7500)
    ELSE IF cell = Text("abc") THEN NaN
    ELSE cell

\* C15: clean_csv_data returns a table (it does not raise); its rows are
\* exactly the input rows that are not fully empty and hold no placeholder
\* token, in their order; a value of a listed column that does not parse is
\* the missing-value marker in the result and its row is kept; a listed
\* column the table lacks is skipped, the columns staying as they were.
C15_UnparseableKeptAsMissing ==
    (ret.of = "clean_csv_data" /\ calls = 1)
    => LET in == ret.df
           out == ret.returns
           kept == Range(in.index) \ (FullyEmpty(in) \cup HoldsPlaceholder(in))
       IN  /\ "returns" \in DOMAIN ret
           /\ out.columns = in.columns
           /\ out.index = Select(in, kept).index
           /\ \A l \in kept : \A c \in Range(in.columns) :
                LET before == RowAt(in, l)[c]
                    after == RowAt(out, l)[c]
                IN  IF c \in Range(ret.numeric_columns)
                    THEN after = Coerced(before)
                    ELSE after = before

\* A table whose second row holds the unparseable 'abc' in the listed
\* column, cleaned with a list that also names a column the table lacks:
\* both rows are returned, 'abc' as the missing-value marker.
C15_Witness ==
    /\ ret.of = "clean_csv_data"
    /\ calls = 1
    /\ ret.numeric_columns = <<"GDP_per_capita", "Happiness_score">>
    /\ Len(ret.df.rows) = 2
    /\ ret.df.rows[1]["Happiness_score"] = Text("7,5")
    /\ ret.df.rows[2]["Happiness_score"] = Text("abc")
    /\ ret.df.rows[2]["Country"] = Text("Finland")
    /\ Len(ret.returns.rows) = 2
    /\ ret.returns.rows[1]["Happiness_score"] = Num(7500)
    /\ ret.returns.rows[2]["Happiness_score"] = NaN

(***************************************************************************)
(* CSVValidator.get_data_quality_report                                    *)
(***************************************************************************)
\* df.isnull().sum().to_dict()
missing_values(df) ==
    [c \in Range(df.columns) |->
        Cardinality({ i \in 1..Len(df.rows) : isnull(df.rows[i][c]) })]

\* df.duplicated().sum(): the rows equal to an earlier row
duplicated_rows(df) ==
    Cardinality({ i \in 1..Len(df.rows) : \E j \in 1..(i - 1) : df.rows[j] = df.rows[i] })

\* get_data_quality_report(df); the statistics per column are left out.
get_data_quality_report(df) ==
    IF Len(df.rows) = 0 \/ Len(df.columns) = 0
    THEN [error |-> "DataFrame is empty"]
    ELSE [total_rows |-> Len(df.rows),
          total_columns |-> Len(df.columns),
          missing_values |-> missing_values(df),
          duplicated_rows |-> duplicated_rows(df),
          data_types |-> df.dtypes]

\* A call of get_data_quality_report, the first of the run.  The report is
\* built from selections and sums of df; nothing is assigned into df.
GetDataQualityReport ==
    /\ ret = NoReturn
    /\ \E df \in CleanerTables :
          ret' = [of |-> "get_data_quality_report", df |-> df,
                  returns |-> get_data_quality_report(df), after |-> df]
    /\ UNCHANGED <<loop, row, callVars>>

\* The four operations of the validator that take a table.
NextValidators ==
    \/ CleanCsvData
    \/ CleanCsvDataAgain
    \/ GetDataQualityReport
    \/ ValidateHappinessData
    \/ ValidateUniversityData
SpecValidators == InitRows /\ [][NextValidators]_vars

ValidatorOperations ==
    {"clean_csv_data", "get_data_quality_report",
     "validate_happiness_data", "validate_university_data"}

data_dir == "data/raw"
PathOf(filename) == data_dir \o "/" \o filename

\* file_configs, in the order the loop takes them
file_configs ==
    << [filename |-> "2022.csv",
        expected_columns |-> <<"RANK", "Country", "Happiness_score", "GDP_per_capita">>,
        numeric_columns |-> <<"RANK", "Happiness_score", "GDP_per_capita">>,
        integrity_checker |-> "validate_happiness_data"],
       [filename |-> "university_data.csv",
        expected_columns |-> <<"Year", "Term", "Applications", "Admitted", "Enrolled">>,
        numeric_columns |-> <<"Year", "Applications", "Admitted", "Enrolled">>,
        integrity_checker |-> "validate_university_data"] >>

\* The cell of the i-th data row of a file of the model under a column, as
\* pd.read_csv reads it: numbers where the text is a numeral with a point,
\* text otherwise (scores and GDP are written with decimal commas, as in the
\* happiness file; the rates with a percent sign).  The first Country is the
\* placeholder 'xx'.
FileCell(column, i) ==
    CASE column = "Year" -> Num((2019 + i) * 1000)
      [] column = "Term" -> Text(IF i % 2 = 1 THEN "Spring" ELSE "Fall")
      [] column = "Applications" -> Num(1000000)
      [] column = "Admitted" -> Num(600000)
      [] column = "Enrolled" -> Num((400 + 100 * i) * 1000)
      [] column = "Retention Rate (%)" -> Text("85%")
      [] column = "RANK" -> Num(i * 1000)
      [] column = "Country" -> Text(IF i = 1 THEN "xx" ELSE "Finland")
      [] column = "Happiness_score" -> Text("7,5")
      [] column = "GDP_per_capita" -> Text("1,2")
      [] OTHER -> NaN

\* The table pd.read_csv builds of the first n data rows of a file.
FileTable(f, n) ==
    DataFrame(f.header,
              [i \in 1..n |-> [c \in Range(f.header) |-> FileCell(c, i)]])

\* A table as the integrity checkers take it: the columns as a set; for the
\* university checker the numbers as integers.
AsChecked(df) == [columns |-> Range(df.columns), rows |-> df.rows]
AsIntegers(df) ==
    [columns |-> Range(df.columns),
     rows |-> [i \in 1..Len(df.rows) |->
                 [c \in Range(df.columns) |-> df.rows[i][c].n \div 1000]]]

\* config["integrity_checker"](df_cleaned): the list of issues, or the
\* TypeError of comparing a column of texts with a number.
integrity_checker(config, df, current_year) ==
    IF config.integrity_checker = "validate_happiness_data"
    THEN IF \E c \in {"Happiness_score", "GDP_per_capita"} \cap Range(df.columns) :
                df.dtypes[c] = "object" /\ Len(df.rows) > 0
         THEN Raised("TypeError", "'<' not supported between instances of 'str' and 'int'")
         ELSE Value(validate_happiness_data(AsChecked(df)))
    ELSE IF \E c \in CheckedColumns \cap Range(df.columns) :
                df.dtypes[c] = "object" /\ Len(df.rows) > 0
         THEN Raised("TypeError", "'<' not supported between instances of 'str' and 'int'")
         ELSE Value(validate_university_data(AsIntegers(df), current_year))

\* The try block of the loop body for a file whose structure is valid.
process_file(config, f, current_year) ==
    LET r == read_csv(f, f.rows)
        df == FileTable(f, f.rows)
        df_cleaned == clean_csv_data(df, config.numeric_columns).returns
        quality_report == get_data_quality_report(df_cleaned)
        integrity_issues == integrity_checker(config, df_cleaned, current_year)
    IN  IF "raised" \in DOMAIN r
        THEN "error" :> ("Error processing file: " \o r.text)
        ELSE IF "raised" \in DOMAIN integrity_issues
        THEN "quality_report" :> quality_report
             @@ "error" :> ("Error processing file: " \o integrity_issues.text)
        ELSE "quality_report" :> quality_report
             @@ "integrity_issues" :> integrity_issues.value

\* The loop body for one file: the entry of results, or the exception that
\* leaves the loop.
file_result(config, d, hs, current_year) ==
    LET file_path == PathOf(config.filename)
        f == d[file_path]
        structure == validate_csv_structure(file_path, config.expected_columns, d, hs).value
        is_valid == structure[1]
        message == structure[2]
        file_exists == path_exists(f)
    IN  IF "raised" \in DOMAIN file_exists THEN file_exists
        ELSE LET entry == "file_exists" :> file_exists.value
                          @@ "structure_valid" :> is_valid
                          @@ "validation_message" :> message
             IN  IF is_valid /\ file_exists.value
                 THEN Value(entry @@ process_file(config, f, current_year))
                 ELSE Value(entry)

\* validate_data_files(data_dir) from the k-th file on, results being what
\* the loop has filled in so far.
RECURSIVE validate_data_files_from(_, _, _, _, _)
validate_data_files_from(k, results, d, hs, current_year) ==
    IF k > Len(file_configs) THEN Value(results)
    ELSE LET r == file_result(file_configs[k], d, hs, current_year)
         IN  IF "raised" \in DOMAIN r THEN r
             ELSE validate_data_files_from(
                      k + 1, results @@ (file_configs[k].filename :> r.value),
                      d, hs, current_year)

validate_data_files(d, hs, current_year) ==
    validate_data_files_from(1, <<>>, d, hs, current_year)

\* The files of the data directory.
DataFilePaths == { PathOf(file_configs[k].filename) : k \in 1..Len(file_configs) }
DataHeaders ==
    { file_configs[1].expected_columns,
      file_configs[2].expected_columns,
      file_configs[2].expected_columns \o <<"Retention Rate (%)">> }

\* What may be at each of the two paths: as for the structure validator, the
\* malformed row of a CSV file, if it has one, being its first or its last.
DataFileStates ==
    { File(k, <<>>, 0, 0) :
        k \in {"missing", "stat_error", "zero_bytes", "open_error", "blank",
               "undecodable"} }
    \cup { f \in { File("csv", h, n, b) :
                     h \in DataHeaders, n \in 0..MaxDataRows, b \in 0..MaxDataRows } :
             f.bad \in {0, 1, f.rows} /\ f.bad <= f.rows }

InitDataFiles ==
    /\ loop = Idle
    /\ row = NoRow
    /\ ret = NoReturn
    /\ rng = Unseeded
    /\ hashseed \in HashSeeds
    /\ stream = 0
    /\ tie = "kept"
    /\ cache = <<>>
    /\ seen = <<>>
    /\ calls = 0
    /\ disk \in [DataFilePaths -> DataFileStates]

\* A call of validate_data_files(data_dir), the first of the run.
ValidateDataFiles ==
    /\ ret = NoReturn
    /\ \E current_year \in Clock :
         LET r == validate_data_files(disk, hashseed, current_year)
         IN  ret' = IF "raised" \in DOMAIN r
                    THEN [of |-> "validate_data_files", raised |-> r.raised]
                    ELSE [of |-> "validate_data_files", returns |-> r.value]
    /\ UNCHANGED <<loop, row, callVars>>

SpecDataFiles == InitDataFiles /\ [][ValidateDataFiles]_vars

KnownFilenames == { file_configs[k].filename : k \in 1..Len(file_configs) }
EntryKeys == {"file_exists", "structure_valid", "validation_message"}

\* C17: whatever is in the data directory, validate_data_files returns a
\* dict with exactly one entry per known filename, each entry with
\* file_exists, structure_valid and validation_message, and with
\* quality_report and integrity_issues only when structure_valid is true.
C17_OneEntryPerKnownFile ==
    ret.of = "validate_data_files"
    => /\ "returns" \in DOMAIN ret
       /\ DOMAIN ret.returns = KnownFilenames
       /\ \A name \in KnownFilenames :
            LET entry == ret.returns[name]
            IN  /\ EntryKeys \subseteq DOMAIN entry
                /\ DOMAIN entry \subseteq
                     EntryKeys \cup {"quality_report", "integrity_issues", "error"}
                /\ {"quality_report", "integrity_issues"} \cap DOMAIN entry # {}
                     => entry["structure_valid"]

\* C18: no failure while one file is processed leaves validate_data_files:
\* the call returns, an exception of the load, clean, quality or integrity
\* step is recorded under the file's "error" key, and the other file has its
\* entry all the same.
C18_NoFailurePropagates ==
    ret.of = "validate_data_files"
    => /\ "returns" \in DOMAIN ret
       /\ DOMAIN ret.returns = KnownFilenames

(***************************************************************************)
(* DataHandler.load_happiness_data and load_university_data, behind        *)
(* st.cache_data.                                                          *)
(***************************************************************************)
MaxLoaderRows == 2

\* The twelve names load_happiness_data gives the columns.
happiness_columns ==
    <<"RANK", "Country", "Happiness_score", "Whisker_high", "Whisker_low",
      "Dystopia_residual", "GDP_per_capita", "Social_support",
      "Healthy_life_expectancy", "Freedom", "Generosity", "Corruption">>

\* The header line of a happiness file as it is published: twelve columns
\* under names of its own.
published_columns ==
    <<"RANK", "Country", "Happiness score", "Whisker-high", "Whisker-low",
      "Dystopia (1.83) + residual", "Explained by: GDP per capita",
      "Explained by: Social support", "Explained by: Healthy life expectancy",
      "Explained by: Freedom to make life choices", "Explained by: Generosity",
      "Explained by: Perceptions of corruption">>

\* pd.read_csv(file_path, decimal=',') on one cell: a numeral written with a
\* decimal comma is read as its number.
read_decimal_comma(cell) ==
    IF cell.t = "str" /\ to_numeric_text(str_replace_comma(cell.s)) # NaN
       /\ to_numeric_text(cell.s) = NaN
    THEN to_numeric_text(str_replace_comma(cell.s))
    ELSE cell

\* The table pd.read_csv(file_path, decimal=',') builds of a file: the cell
\* under the k-th column is the one the model has for the k-th happiness
\* column where the file has twelve columns, for the column's name otherwise.
HappinessFileTable(f) ==
    DataFrame(f.header,
              [i \in 1..f.rows |->
                 [c \in Range(f.header) |->
                    LET k == CHOOSE j \in 1..Len(f.header) : f.header[j] = c
                    IN  read_decimal_comma(
                            FileCell(IF Len(f.header) = Len(happiness_columns)
                                     THEN happiness_columns[k] ELSE c, i))]])

\* df.columns = names
set_columns(df, names) ==
    IF Len(names) # Len(df.columns)
    THEN Raised("ValueError", "Length mismatch")
    ELSE Value(
        [columns |-> names,
         dtypes |-> [c \in Range(names) |->
                        df.dtypes[df.columns[CHOOSE j \in 1..Len(names) : names[j] = c]]],
         index |-> df.index,
         rows |-> [i \in 1..Len(df.rows) |->
                     [c \in Range(names) |->
                        df.rows[i][df.columns[CHOOSE j \in 1..Len(names) : names[j] = c]]]]])

\* The table a loader returns, with the return statement it comes from.
FromFile(df) == [source |-> "file", table |-> df]
Synthetic(table) == [source |-> "synthetic", table |-> table]

\* The try block of load_happiness_data.
load_happiness_data_try(d, g0) ==
    LET f == d[PathOf("2022.csv")]
        file_exists == path_exists(f)
        r == read_csv(f, f.rows)
        named == set_columns(HappinessFileTable(f), happiness_columns)
    IN  IF "raised" \in DOMAIN file_exists THEN file_exists
        ELSE IF ~file_exists.value
        THEN LET g == generate_synthetic_happiness_data(g0)
             IN  Value([returns |-> Synthetic(g.table), rng |-> g.rng])
        ELSE IF "raised" \in DOMAIN r THEN r
        ELSE IF "raised" \in DOMAIN named THEN named
        ELSE LET df == named.value
                 kept == Select(df, { df.index[i] : i \in { j \in 1..Len(df.rows) :
                                        df.rows[j]["Country"] # Text("xx") } })
                 ranked == [kept EXCEPT
                              !.rows = [i \in 1..Len(kept.rows) |->
                                          [kept.rows[i] EXCEPT !["RANK"] =
                                              IF @.t = "str" THEN to_numeric_text(@.s)
                                              ELSE @]],
                              !.dtypes = [@ EXCEPT !["RANK"] = "float64"]]
             IN  Value([returns |-> FromFile(ranked), rng |-> g0])

\* The body of load_happiness_data.
load_happiness_data_body(d, g0) ==
    LET t == load_happiness_data_try(d, g0)
    IN  IF "raised" \in DOMAIN t
        THEN LET g == generate_synthetic_happiness_data(g0)
             IN  Value([returns |-> Synthetic(g.table), rng |-> g.rng])
        ELSE t

\* The try block of load_university_data.
load_university_data_try(d, g0) ==
    LET f == d[PathOf("university_data.csv")]
        file_exists == path_exists(f)
        r == read_csv(f, f.rows)
    IN  IF "raised" \in DOMAIN file_exists THEN file_exists
        ELSE IF ~file_exists.value
        THEN LET g == generate_synthetic_university_data(g0)
             IN  Value([returns |-> Synthetic(g.table), rng |-> g.rng])
        ELSE IF "raised" \in DOMAIN r THEN r
        ELSE Value([returns |-> FromFile(FileTable(f, f.rows)), rng |-> g0])

\* load_university_data without its except clause.
load_university_data_unguarded(d, g0) == load_university_data_try(d, g0)

\* The body of load_university_data.
load_university_data_body(d, g0) ==
    LET t == load_university_data_try(d, g0)
    IN  IF "raised" \in DOMAIN t
        THEN LET g == generate_synthetic_university_data(g0)
             IN  Value([returns |-> Synthetic(g.table), rng |-> g.rng])
        ELSE t

\* A memoised call of one of the two loaders: the body runs only when the key
\* is not in the cache, and what it returns is filed; what it raises is not.
Memoised(key, body, g0, c0) ==
    IF key \in DOMAIN c0
    THEN [returns |-> c0[key], rng |-> g0, cache |-> c0]
    ELSE IF "raised" \in DOMAIN body
    THEN [raised |-> body.raised, rng |-> g0, cache |-> c0]
    ELSE [returns |-> body.value.returns, rng |-> body.value.rng,
          cache |-> c0 @@ (key :> body.value.returns)]

load_happiness_data(d, g0, c0) ==
    Memoised(CacheKey("load_happiness_data", ""), load_happiness_data_body(d, g0), g0, c0)

load_university_data(d, g0, c0) ==
    Memoised(CacheKey("load_university_data", ""), load_university_data_body(d, g0), g0, c0)

\* What may be at the two paths when the loaders are called.
LoaderHeaders ==
    { published_columns,
      file_configs[1].expected_columns,
      file_configs[2].expected_columns }
LoaderFileStates ==
    { File(k, <<>>, 0, 0) :
        k \in {"missing", "stat_error", "zero_bytes", "open_error", "blank",
               "undecodable"} }
    \cup { f \in { File("csv", h, n, b) :
                     h \in LoaderHeaders, n \in 0..MaxLoaderRows, b \in 0..1 } :
             f.bad <= f.rows }

InitLoaders ==
    /\ loop = Idle
    /\ row = NoRow
    /\ ret = NoReturn
    /\ rng = Unseeded
    /\ hashseed \in HashSeeds
    /\ stream = 0
    /\ tie = "kept"
    /\ cache = <<>>
    /\ seen = <<>>
    /\ calls = 0
    /\ disk \in [DataFilePaths -> LoaderFileStates]

\* What a call of a file loader returned.
Loaded(of, r) ==
    IF "raised" \in DOMAIN r
    THEN [of |-> of, code |-> "", via |-> "load", raised |-> r.raised]
    ELSE [of |-> of, code |-> "", via |-> "load",
          source |-> r.returns.source, table |-> r.returns.table]

LoadHappiness ==
    /\ calls < MaxCalls
    /\ LET r == load_happiness_data(disk, rng, cache)
       IN  /\ ret' = Loaded("happiness", r)
           /\ rng' = r.rng
           /\ cache' = r.cache
    /\ calls' = calls + 1
    /\ UNCHANGED <<loop, row, hashseed, stream, tie, seen, disk>>

LoadUniversity ==
    /\ calls < MaxCalls
    /\ LET r == load_university_data(disk, rng, cache)
       IN  /\ ret' = Loaded("university", r)
           /\ rng' = r.rng
           /\ cache' = r.cache
    /\ calls' = calls + 1
    /\ UNCHANGED <<loop, row, hashseed, stream, tie, seen, disk>>

\* load_airport_data for a hub
LoadHub == LoadAirport("JFK")

\* The three loaders, called in any order while the files stay as they are.
NextLoaders == LoadHappiness \/ LoadUniversity \/ LoadHub
SpecLoaders == InitLoaders /\ [][NextLoaders]_vars

\* The file a loader reads, and whether reading or post-processing it raises:
\* the existence test fails, the file cannot be opened or decoded, has no
\* header line, has a malformed row, or (happiness) has not twelve columns.
FileOf(of) ==
    disk[PathOf(IF of = "happiness" THEN "2022.csv" ELSE "university_data.csv")]
Absent(f) == f.kind = "missing"
ReadFails(of, f) ==
    \/ f.kind \in {"stat_error", "zero_bytes", "open_error", "blank", "undecodable"}
    \/ f.kind = "csv" /\ f.bad >= 1
    \/ f.kind = "csv" /\ of = "happiness" /\ Len(f.header) # 12

\* C19: load_happiness_data and load_university_data raise nothing; they
\* return the table of their synthetic generator when the file is absent or
\* reading or post-processing it raises, and the table of the file (for the
\* happiness file, with the twelve column names and without its 'xx' rows)
\* only when it is read without error.
C19_SyntheticExactlyOnFailure ==
    (ret.of \in {"happiness", "university"} /\ ret.via = "load")
    => /\ "raised" \notin DOMAIN ret
       /\ "table" \in DOMAIN ret
       /\ LET f == FileOf(ret.of)
          IN  IF Absent(f) \/ ReadFails(ret.of, f)
              THEN /\ ret.source = "synthetic"
                   /\ ret.table = (IF ret.of = "happiness"
                                   THEN generate_synthetic_happiness_data(rng).table
                                   ELSE generate_synthetic_university_data(rng).table)
              ELSE /\ ret.source = "file"
                   /\ ret.table.index =
                        [i \in 1..(f.rows - (IF ret.of = "happiness" /\ f.rows > 0
                                             THEN 1 ELSE 0)) |->
                            i - 1 + (IF ret.of = "happiness" THEN 1 ELSE 0)]
                   /\ ret.table.columns = (IF ret.of = "happiness"
                                           THEN happiness_columns ELSE f.header)

\* The university loader has returned the generator's table for a file with
\* a malformed row, after the happiness loader returned the one row left of
\* a two-row file.
C19_Witness ==
    /\ ret.of = "university" /\ ret.via = "load"
    /\ FileOf("university").kind = "csv" /\ FileOf("university").bad = 1
    /\ ret.source = "synthetic"
    /\ Len(ret.table) = 20
    /\ CacheKey("load_happiness_data", "") \in DOMAIN cache
    /\ cache[CacheKey("load_happiness_data", "")].source = "file"
    /\ Len(cache[CacheKey("load_happiness_data", "")].table.rows) = 1

\* C20: whatever is at the paths of the data files, load_happiness_data,
\* load_university_data and load_airport_data for a hub each return a table
\* that is not empty.
C20_LoadersReturnRows ==
    ("via" \in DOMAIN ret /\ ret.via = "load")
    => /\ "table" \in DOMAIN ret
       /\ IF "source" \in DOMAIN ret /\ ret.source = "file"
          THEN Len(ret.table.rows) > 0
          ELSE Len(ret.table) > 0

\* A step that is a call of one of the three generators.
GeneratorCallStep ==
    /\ calls' = calls + 1
    /\ "via" \in DOMAIN ret'
    /\ ret'.via = "generate"

\* C21: a call of a generator changes nothing outside the table it returns:
\* the process-wide random number generator, the hash secret, the cache and
\* the files are after the call what they were before it, whether the call
\* returns rows or is made with an unknown airport code.
C21_GeneratorCallChangesNothing ==
    [][GeneratorCallStep =>
          /\ rng' = rng
          /\ hashseed' = hashseed
          /\ cache' = cache
          /\ disk' = disk]_vars

(***************************************************************************)
(* test_app.py: the three check groups and main.                           *)
(*                                                                         *)
(* disk holds what the script finds: the required files that are missing,  *)
(* the try block of test_imports that fails (0 for none) and whether the   *)
(* try block of test_data_integrity fails.  loop holds main's position,    *)
(* tests_passed and the groups run so far.                                 *)
(***************************************************************************)
required_files ==
    <<"src/app.py", "src/utils/styles.py", "src/utils/data_handler.py",
      "src/utils/csv_validator.py", "src/components/portfolio_overview.py",
      "src/components/transportation_analytics.py", "requirements.txt",
      "README.md">>

\* The try blocks of test_imports: styles, data handler, CSV validator,
\* components.
ImportBlocks == 4

total_tests == 3

\* test_file_structure(): all_exist after the loop over required_files
RECURSIVE all_exist_from(_, _)
all_exist_from(k, missing) ==
    IF k > Len(required_files) THEN TRUE
    ELSE (required_files[k] \notin missing) /\ all_exist_from(k + 1, missing)
test_file_structure(env) == all_exist_from(1, env.missing)

\* test_imports(): the first try block that fails returns False; True after
\* the last one.
RECURSIVE test_imports_from(_, _)
test_imports_from(k, env) ==
    IF k > ImportBlocks THEN TRUE
    ELSE IF env.import_failure = k THEN FALSE
    ELSE test_imports_from(k + 1, env)
test_imports(env) == test_imports_from(1, env)

\* test_data_integrity(): True unless its try block fails; issues found are
\* printed and do not fail it.
test_data_integrity(env) == ~env.integrity_raises

\* What the script may find.
Environments ==
    [missing : SUBSET Range(required_files),
     import_failure : 0..ImportBlocks,
     integrity_raises : BOOLEAN]

InitTestApp ==
    /\ loop = [gen |-> "main", pc |-> "start", tests_passed |-> 0, ran |-> <<>>]
    /\ row = NoRow
    /\ ret = NoReturn
    /\ rng = Unseeded
    /\ hashseed = 0
    /\ stream = 0
    /\ tie = "kept"
    /\ cache = <<>>
    /\ seen = <<>>
    /\ calls = 0
    /\ disk \in Environments

\* One 'if test_...(): tests_passed += 1' of main.
RunGroup(at, group, passed, next) ==
    /\ loop.pc = at
    /\ loop' = [loop EXCEPT !.pc = next,
                            !.tests_passed = IF passed THEN @ + 1 ELSE @,
                            !.ran = Append(@, group)]
    /\ UNCHANGED <<row, ret, callVars>>

MainFileStructure ==
    RunGroup("start", "file_structure", test_file_structure(disk), "imports")
MainImports ==
    RunGroup("imports", "imports", test_imports(disk), "data_integrity")
MainDataIntegrity ==
    RunGroup("data_integrity", "data_integrity", test_data_integrity(disk), "results")

\* main's result with one passed group taken for success.
main_returns_any(tests_passed) == tests_passed > 0

\* return tests_passed == total_tests
main_returns(tests_passed) == tests_passed = total_tests

\* success = main(); sys.exit(0 if success else 1)
MainExit ==
    /\ loop.pc = "results"
    /\ loop' = [loop EXCEPT !.pc = "exited"]
    /\ ret' = [of |-> "test_app",
               status |-> IF main_returns(loop.tests_passed) THEN 0 ELSE 1]
    /\ UNCHANGED <<row, callVars>>

NextTestApp == MainFileStructure \/ MainImports \/ MainDataIntegrity \/ MainExit
SpecTestApp == InitTestApp /\ [][NextTestApp]_vars

\* C22: the script runs the three check groups (file structure, imports,
\* data integrity), each whatever the earlier ones returned, and exits with
\* status 0 exactly when all three returned success, with status 1 otherwise.
C22_ExitZeroIffAllGroupsPass ==
    ret.of = "test_app"
    => /\ loop.ran = <<"file_structure", "imports", "data_integrity">>
       /\ ret.status \in {0, 1}
       /\ ret.status = 0 <=> (/\ disk.missing = {}
                              /\ disk.import_failure = 0
                              /\ ~disk.integrity_raises)

\* The script has exited with status 1 after running all three groups, the
\* first of which failed (README.md missing) and the other two passed.
C22_Witness ==
    /\ ret.of = "test_app"
    /\ ret.status = 1
    /\ disk.missing = {"README.md"}
    /\ disk.import_failure = 0
    /\ ~disk.integrity_raises
    /\ loop.ran = <<"file_structure", "imports", "data_integrity">>
    /\ loop.tests_passed = 2

(***************************************************************************)
(* The file loaders while the data files change between calls.             *)
(***************************************************************************)
\* What a path holds before and after a change: nothing, a file without
\* bytes, or a CSV file with one of the three headers and no or two rows.
ChangingFileStates ==
    { Missing, File("zero_bytes", <<>>, 0, 0) }
    \cup { File("csv", h, n, 0) : h \in LoaderHeaders, n \in {0, MaxLoaderRows} }

InitChangingFiles ==
    /\ loop = Idle
    /\ row = NoRow
    /\ ret = NoReturn
    /\ rng = Unseeded
    /\ hashseed = 0
    /\ stream = 0
    /\ tie = "kept"
    /\ cache = <<>>
    /\ seen = <<>>
    /\ calls = 0
    /\ disk \in [DataFilePaths -> ChangingFileStates]

\* A data file is created, removed or rewritten between two calls.
ChangeFile ==
    /\ calls < MaxCalls
    /\ \E p \in DataFilePaths :
          \E f \in ChangingFileStates \ {disk[p]} :
             disk' = [disk EXCEPT ![p] = f]
    /\ ret' = NoReturn
    /\ calls' = calls + 1
    /\ UNCHANGED <<loop, row, rng, hashseed, stream, tie, cache, seen>>

NextChangingFiles == LoadHappiness \/ LoadUniversity \/ ChangeFile
SpecChangingFiles == InitChangingFiles /\ [][NextChangingFiles]_vars

\* A step that is a call of one of the two file loaders.
FileLoaderCallStep ==
    /\ calls' = calls + 1
    /\ "via" \in DOMAIN ret'
    /\ ret'.via = "load"
    /\ ret'.of \in {"happiness", "university"}

\* What the loader's body returns for the files d, without the cache.
Unmemoised(of, d, g0) ==
    (IF of = "happiness" THEN load_happiness_data_body(d, g0)
     ELSE load_university_data_body(d, g0)).value.returns

\* C23: over any sequence of loader calls and changes of the data files, a
\* memoised call of load_happiness_data or load_university_data returns the
\* table a call without the cache would return at that moment.
C23_MemoisedCallAsUnmemoised ==
    [][FileLoaderCallStep =>
          /\ "table" \in DOMAIN ret'
          /\ [source |-> ret'.source, table |-> ret'.table]
               = Unmemoised(ret'.of, disk, rng)]_vars

(***************************************************************************)
(* Two generator invocations in one process, interleaved draw by draw.     *)
(* Each invocation seeds numpy's process-wide generator and then draws     *)
(* from it; loop holds the two invocations, each with its generator, its   *)
(* position and the values it has drawn so far.  An invocation is followed *)
(* over its first MaxDraws draws.                                          *)
(***************************************************************************)
MaxDraws == 3

\* The ranges of the nine np.random.randint draws of an enrollment row and
\* of the seven np.random.uniform draws of a happiness row (in thousandths),
\* in the order they are made.
university_ranges ==
    << <<-100, 100>>, <<-50, 50>>, <<-30, 30>>, <<-3, 3>>, <<-4, 4>>,
       <<-8, 8>>, <<-6, 6>>, <<-5, 5>>, <<-4, 4>> >>
happiness_ranges ==
    << <<-800, 800>>, <<-300, 300>>, <<500, 1500>>, <<500, 1500>>,
       <<300, 1200>>, <<-200, 500>>, <<0, 500>> >>

\* The destination the f-th flight of the outer loop goes to.
DestinationOfFlight(airport_code, f) ==
    CHOOSE i \in 1..Len(destinations) :
        /\ FlightsBefore(airport_code, i) < f
        /\ f <= FlightsBefore(airport_code, i + 1)

\* The seed an invocation gives np.random.seed.
SeedOf(gen, code) ==
    IF gen = "airport" THEN str_hash(hashseed, code) % 1000 ELSE 42

\* The value the k-th draw of an invocation yields when numpy's generator is
\* in state g.
DrawValue(gen, code, k, g) ==
    IF gen = "university"
    THEN LET r == university_ranges[((k - 1) % Len(university_ranges)) + 1]
         IN  draw_randint(stream, g, 0, r[1], r[2])
    ELSE IF gen = "happiness"
    THEN LET r == happiness_ranges[((k - 1) % Len(happiness_ranges)) + 1]
         IN  draw_uniform(stream, g, 0, r[1], r[2])
    ELSE IF k % 2 = 1
    THEN LET c == airline_choice(destinations[DestinationOfFlight(code, (k + 1) \div 2)])
         IN  draw_choice(stream, g, 0, c.a, c.p)
    ELSE draw_randint(stream, g, 0, 5, 23)

\* The values an invocation draws when nothing else uses the generator.
DrawnAlone(gen, code) ==
    [k \in 1..MaxDraws |->
        DrawValue(gen, code, k, Advance(seed(SeedOf(gen, code)), k - 1))]

Invocations ==
    { [gen |-> "university", code |-> "", pc |-> "seed", drawn |-> <<>>],
      [gen |-> "happiness", code |-> "", pc |-> "seed", drawn |-> <<>>],
      [gen |-> "airport", code |-> "JFK", pc |-> "seed", drawn |-> <<>>] }

InitInterleaved ==
    /\ loop \in [gen : {"interleaved"}, threads : [1..2 -> Invocations]]
    /\ row = NoRow
    /\ ret = NoReturn
    /\ rng = Unseeded
    /\ hashseed \in HashSeeds
    /\ stream \in Streams
    /\ tie = "kept"
    /\ cache = <<>>
    /\ seen = <<>>
    /\ calls = 0
    /\ disk = NoFiles

\* np.random.seed(...) of invocation t
ThreadSeed(t) ==
    /\ loop.threads[t].pc = "seed"
    /\ rng' = seed(SeedOf(loop.threads[t].gen, loop.threads[t].code))
    /\ loop' = [loop EXCEPT !.threads[t].pc = "draw"]
    /\ UNCHANGED <<row, ret, hashseed, stream, tie, cache, seen, calls, disk>>

\* The next np.random draw of invocation t
ThreadDraw(t) ==
    /\ loop.threads[t].pc = "draw"
    /\ LET th == loop.threads[t]
           v == DrawValue(th.gen, th.code, Len(th.drawn) + 1, rng)
       IN  loop' = [loop EXCEPT
                       !.threads[t].drawn = Append(@, v),
                       !.threads[t].pc = IF Len(th.drawn) + 1 = MaxDraws
                                         THEN "done" ELSE "draw"]
    /\ rng' = Advance(rng, 1)
    /\ UNCHANGED <<row, ret, hashseed, stream, tie, cache, seen, calls, disk>>

SeedStep == \E t \in 1..2 : ThreadSeed(t)
DrawStep == \E t \in 1..2 : ThreadDraw(t)
NextInterleaved == SeedStep \/ DrawStep
SpecInterleaved == InitInterleaved /\ [][NextInterleaved]_vars

\* C24: generator invocations do not interfere: in every order of calls, and
\* when two invocations are interleaved draw by draw, each invocation draws,
\* and so returns, what it does when it runs alone.
C24_InvocationAsAlone ==
    loop.gen = "interleaved"
    => \A t \in 1..2 :
          loop.threads[t].pc = "done"
          => loop.threads[t].drawn
               = DrawnAlone(loop.threads[t].gen, loop.threads[t].code)

\* The number of rows of a flight table that go to a destination.
FlightsTo(table, dest_code) ==
    Cardinality({ i \in 1..Len(table) : table[i].destination_airport = dest_code })

\* A destination at the given distance (in hundredths of a degree) north of
\* a hub, domestic or not.
DestinationAt(source_info, d, domestic) ==
    [lat |-> source_info.lat + d, lon |-> source_info.lon, domestic |-> domestic]

\* At every distance from 0 to 250 degrees, in steps of a quarter degree, a
\* domestic destination gets at least the flights of an international one.
DomesticNeverFewerAtEqualDistance ==
    \A h \in Hubs : \A q \in 0..1000 :
        num_flights(airport_coordinates[h],
                    DestinationAt(airport_coordinates[h], 25 * q, TRUE))
        >= num_flights(airport_coordinates[h],
                       DestinationAt(airport_coordinates[h], 25 * q, FALSE))

\* C25: in the flight table of a hub each of the 14 destinations has between
\* 2 and 25 rows; of two destinations with the same domestic flag the closer
\* one has at least as many rows as the other; and at equal distance a
\* domestic destination has at least as many flights as an international one.
C25_FlightCounts ==
    (ret.of = "airport" /\ "table" \in DOMAIN ret /\ ret.code \in Hubs)
    => \A n \in {[i \in 1..Len(destinations) |->
                    FlightsTo(ret.table, destinations[i].code)]} :
       \A far \in {[i \in 1..Len(destinations) |->
                    distance(airport_coordinates[ret.code], destinations[i])]} :
           /\ Len(destinations) = 14
           /\ \A i \in 1..Len(destinations) : 2 <= n[i] /\ n[i] <= 25
           /\ \A i, j \in 1..Len(destinations) :
                (/\ destinations[i].domestic = destinations[j].domestic
                 /\ far[i] <= far[j])
                => n[i] >= n[j]
           /\ \A i, j \in 1..Len(destinations) :
                (/\ destinations[i].domestic /\ ~destinations[j].domestic
                 /\ far[i] = far[j])
                => n[i] >= n[j]
           /\ DomesticNeverFewerAtEqualDistance

\* The table of ATL: 25 flights to Orlando, the closest destination, where
\* the unclamped count is 26; 23 to Dallas, 2 to Sydney.
C25_Witness ==
    /\ ret.of = "airport" /\ "table" \in DOMAIN ret /\ ret.code = "ATL"
    /\ FlightsTo(ret.table, "MCO") = 25
    /\ FlightsTo(ret.table, "DFW") = 23
    /\ FlightsTo(ret.table, "SYD") = 2
    /\ Len(ret.table) = 172

\* C26: in every flight row, whatever was drawn, the airline is one of the
\* first five carriers when domestic is true and one of the ten carriers
\* when it is false, and domestic and region are those of the row's
\* destination in the static table.
C26_AirlineMatchesDomesticFlag ==
    (loop.gen = "airport" /\ row # NoRow)
    => /\ row.domestic
            => row.airline \in {"American Airlines", "Delta Air Lines",
                                "United Airlines", "Southwest Airlines",
                                "JetBlue Airways"}
       /\ ~row.domestic
            => row.airline \in {"American Airlines", "Delta Air Lines",
                                "United Airlines", "Southwest Airlines",
                                "JetBlue Airways", "British Airways",
                                "Lufthansa", "Air France", "Emirates",
                                "Qatar Airways"}
       /\ \E i \in 1..Len(destinations) :
             /\ destinations[i].code = row.destination_airport
             /\ destinations[i].domestic = row.domestic
             /\ destinations[i].region = row.region

\* A JetBlue flight from Boston to Orlando, a domestic destination of the
\* Southeast.
C26_Witness ==
    /\ loop.gen = "airport" /\ loop.code = "BOS"
    /\ row # NoRow
    /\ row.destination_airport = "MCO"
    /\ row.domestic
    /\ row.region = "Southeast"
    /\ row.airline = "JetBlue Airways"

\* C27: in every row the enrollment generator builds, whatever the draws
\* were, Retention Rate (%) lies in [75, 100] and Student Satisfaction (%)
\* in [70, 100] (tenths of a percent here).
C27_RatesInRange ==
    (loop.gen = "university" /\ row # NoRow) =>
        /\ 750 <= row.Retention /\ row.Retention <= 1000
        /\ 700 <= row.Satisfaction /\ row.Satisfaction <= 1000

\* The row nearest to the two lower limits: 2015 with the lowest draws,
\* retention 85 - 3 and satisfaction 78 - 4.
C27_Witness ==
    /\ loop.gen = "university"
    /\ row # NoRow
    /\ row.Year = 2015
    /\ row.Retention = 820
    /\ row.Satisfaction = 740

(***************************************************************************)
(* The integrity checkers on the tables of the generators                  *)
(* (test_data_integrity, when the loaders return synthetic tables).        *)
(***************************************************************************)
\* A percentage held in tenths as the whole number next to it away from
\* zero, which stands to 0 and to 100 as the percentage itself does.
WholePercent(tenths) ==
    IF tenths >= 0 THEN (tenths + 9) \div 10 ELSE -((9 - tenths) \div 10)

\* pd.DataFrame(data) of the enrollment generator, as the checker reads it.
EnrollmentFrame(table) ==
    [columns |-> {"Year", "Term", "Applications", "Admitted", "Enrolled",
                  "Retention Rate (%)", "Student Satisfaction (%)",
                  "Engineering Enrolled", "Business Enrolled", "Arts Enrolled",
                  "Science Enrolled"},
     rows |-> [i \in 1..Len(table) |->
                 ("Year" :> table[i].Year @@ "Term" :> table[i].Term
                  @@ "Applications" :> table[i].Applications
                  @@ "Admitted" :> table[i].Admitted
                  @@ "Enrolled" :> table[i].Enrolled
                  @@ "Retention Rate (%)" :> WholePercent(table[i].Retention)
                  @@ "Student Satisfaction (%)" :> WholePercent(table[i].Satisfaction)
                  @@ "Engineering Enrolled" :> table[i].Engineering
                  @@ "Business Enrolled" :> table[i].Business
                  @@ "Arts Enrolled" :> table[i].Arts
                  @@ "Science Enrolled" :> table[i].Science)]]

\* The table of the happiness generator, as the checker reads it.
HappinessFrame(table) ==
    [columns |-> {"RANK", "Country", "Happiness_score", "GDP_per_capita",
                  "Social_support", "Healthy_life_expectancy", "Freedom",
                  "Generosity", "Corruption", "Region"},
     rows |-> [i \in 1..Len(table) |->
                 ("RANK" :> Num(table[i].RANK)
                  @@ "Country" :> Text(table[i].Country)
                  @@ "Happiness_score" :> Num(table[i].Happiness_score)
                  @@ "GDP_per_capita" :> Num(table[i].GDP_per_capita)
                  @@ "Social_support" :> Num(table[i].Social_support)
                  @@ "Healthy_life_expectancy" :> Num(table[i].Healthy_life_expectancy)
                  @@ "Freedom" :> Num(table[i].Freedom)
                  @@ "Generosity" :> Num(table[i].Generosity)
                  @@ "Corruption" :> Num(table[i].Corruption)
                  @@ "Region" :> Text(table[i].Region))]]

\* The draws of row t of the enrollment table: those of the seeded stream,
\* or any other outcome of the three draws of the counts, or of the two
\* draws of the percentages.
EnrollmentDrawsOf(t) ==
    LET d0 == UniversityDrawsAt(stream, seed(42), t)
    IN  { [d0 EXCEPT !.apps = d.apps, !.adm = d.adm, !.enr = d.enr] :
            d \in [apps : Sample(randint(-100, 100)), adm : Sample(randint(-50, 50)),
                   enr : Sample(randint(-30, 30))] }
        \cup { [d0 EXCEPT !.ret = d.ret, !.sat = d.sat] :
            d \in [ret : Sample(randint(-3, 3)), sat : Sample(randint(-4, 4))] }
        \cup {d0}

\* data of the happiness generator after np.random.seed(42), per stream.
SeededHappinessData == [st \in Streams |-> HappinessData(st, seed(42))]

\* The draws of row t of the happiness table: those of the seeded stream, or
\* any other outcome of the draw of the score, or of the draw of the GDP.
HappinessDrawsOf(t) ==
    LET d0 == HappinessDrawsAt(stream, seed(42), t)
    IN  { [d0 EXCEPT !.happiness = h] : h \in Sample(uniform(-800, 800)) }
        \cup { [d0 EXCEPT !.gdp = g] : g \in Sample(uniform(-300, 300)) }
        \cup {d0}

\* The rows the first country of each region gets: the rows of a region
\* are made alike but for the country name.
RegionFirstRows ==
    { t \in 1..HappinessRows :
        t = 1 \/ HappinessOrder[t].region # HappinessOrder[t - 1].region }

InitIntegrity ==
    /\ loop = Idle
    /\ row = NoRow
    /\ ret = NoReturn
    /\ rng = Unseeded
    /\ hashseed = 0
    /\ stream \in Streams
    /\ tie \in TieOrders
    /\ cache = <<>>
    /\ seen = <<>>
    /\ calls = 0
    /\ disk = NoFiles

\* university_data = _generate_synthetic_university_data(), the draws of one
\* of its rows being any outcome, and
\* university_issues = validate_university_data(university_data).
ValidateGeneratedUniversity ==
    /\ ret = NoReturn
    /\ \E t \in 1..UniversityRows, current_year \in Clock :
        \E d \in EnrollmentDrawsOf(t) :
          LET r == generate_synthetic_university_data(rng)
              it == UniversityIteration(t - 1)
              table == [r.table EXCEPT ![t] = UniversityRow(it.year, it.term, d)]
              df == EnrollmentFrame(table)
          IN  /\ ret' = [of |-> "validate_university_data", table |-> table,
                         df |-> df, current_year |-> current_year,
                         issues |-> validate_university_data(df, current_year),
                         after |-> df]
              /\ rng' = r.rng
    /\ UNCHANGED <<loop, row, hashseed, stream, tie, cache, seen, calls, disk>>

\* happiness_data = _generate_synthetic_happiness_data(), the draws of one
\* row of a region being any outcome, and
\* happiness_issues = validate_happiness_data(happiness_data).
ValidateGeneratedHappiness ==
    /\ ret = NoReturn
    /\ \E t \in RegionFirstRows :
        \E d \in HappinessDrawsOf(t) :
          LET c == HappinessOrder[t]
              data == [SeededHappinessData[stream] EXCEPT
                          ![t] = HappinessRow(t, c.region, c.country, d)]
          IN  \E table \in {assign_rank(sort_values(tie, data))} :
                \E df \in {HappinessFrame(table)} :
                  /\ ret' = [of |-> "validate_happiness_data", table |-> table,
                             df |-> df, issues |-> validate_happiness_data(df),
                             after |-> df]
                  /\ rng' = generate_synthetic_happiness_data(rng).rng
    /\ UNCHANGED <<loop, row, hashseed, stream, tie, cache, seen, calls, disk>>

NextIntegrity == ValidateGeneratedUniversity \/ ValidateGeneratedHappiness

SpecIntegrity == InitIntegrity /\ [][NextIntegrity]_vars

\* C28: on every table the enrollment generator can produce
\* validate_university_data returns the empty list, and on every table the
\* happiness generator can produce validate_happiness_data returns the empty
\* list.
C28_GeneratedTablesPass ==
    (ret # NoReturn /\ ret.of \in {"validate_university_data", "validate_happiness_data"})
        => ret.issues = <<>>

\* The happiness checker has returned on a generated table of 59 rows whose
\* first row holds the highest score a draw can give, 7.0 + 0.8.
C28_Witness ==
    /\ ret # NoReturn
    /\ ret.of = "validate_happiness_data"
    /\ Len(ret.table) = 59
    /\ ret.table[1].Happiness_score = 7800
    /\ ret.table[1].Region = "Europe"
    /\ ret.issues = <<>>

\* C29: clean_csv_data is idempotent: run again, with the same list of
\* numeric columns, on the table it returned, it returns that table, with no
\* row removed and no value changed.
C29_CleanIsIdempotent ==
    (ret.of = "clean_csv_data" /\ calls = 2) => ret.returns = ret.df

(***************************************************************************)
(* render_transportation_analytics: the transportation page, in the        *)
(* styled component and in the simple one.  Streamlit runs the function    *)
(* again on every change of the selection; the st.cache_data cache lasts   *)
(* over the runs.                                                          *)
(***************************************************************************)
\* The page is run MaxRuns times.
MaxRuns == 2

Components == {"transportation_analytics", "transportation_analytics_simple"}

airport_options ==
    << "JFK - John F. Kennedy International (New York)",
       "ATL - Hartsfield-Jackson Atlanta International",
       "MIA - Miami International",
       "BOS - Boston Logan International",
       "PHL - Philadelphia International" >>

\* s.split(sep)[0]: s up to the first occurrence of sep, all of s when there
\* is none.
RECURSIVE split_first_from(_, _, _)
split_first_from(s, sep, i) ==
    IF i + Len(sep) - 1 > Len(s) THEN s
    ELSE IF SubSeq(s, i, i + Len(sep) - 1) = sep THEN SubSeq(s, 1, i - 1)
    ELSE split_first_from(s, sep, i + 1)
split_first(s, sep) == split_first_from(s, sep, 1)

\* st.sidebar.selectbox(..., index=0): the first option on the first run,
\* any option once the user has chosen.
selectbox(options, run) ==
    IF run = 1 THEN {options[1]} ELSE Range(options)

\* What may go wrong in the call of the loader: nothing; the last statement
\* of the generator raises (pd.DataFrame(flights)), which the loader turns
\* into an empty table; st.cache_data itself raises before the body runs.
LoadFaults == {"none", "generator", "cache"}

\* DataHandler.load_airport_data(airport_code) as the page calls it, under
\* a fault of the environment.
load_airport_data_under(fault, airport_code, g0, c0) ==
    LET key == CacheKey("load_airport_data", airport_code)
        r == load_airport_data(airport_code, g0, c0)
    IN  IF fault = "cache"
        THEN [raised |-> "Exception", rng |-> g0, cache |-> c0]
        ELSE IF fault = "generator" /\ key \notin DOMAIN c0
        THEN [table |-> EmptyDataFrame, rng |-> r.rng,
              cache |-> c0 @@ (key :> EmptyDataFrame)]
        ELSE r

\* The page with the test of emptiness left out.
airport_data_empty_never(airport_data) == FALSE

\* airport_data.empty
airport_data_empty(airport_data) == airport_data = EmptyDataFrame

\* The three analysis tabs, by the function that renders each.
AnalysisTabs ==
    {"render_route_intelligence", "render_performance_analytics",
     "render_competitive_intelligence"}

InitPage ==
    /\ loop \in [gen : {"page"}, component : Components, pc : {"load"},
                 run : {1}, airport_code : {""}, shown : {<<>>}]
    /\ row = NoRow
    /\ ret = NoReturn
    /\ rng = Unseeded
    /\ hashseed \in HashSeeds
    /\ stream \in Streams
    /\ tie = "kept"
    /\ cache = <<>>
    /\ seen = <<>>
    /\ calls = 0
    /\ disk = NoFiles

\* airport_code = airport.split(" - ")[0]
\* airport_data = DataHandler.load_airport_data(airport_code)
RenderLoad ==
    /\ loop.gen = "page" /\ loop.pc = "load"
    /\ \E airport \in selectbox(airport_options, loop.run), fault \in LoadFaults :
          LET airport_code == split_first(airport, " - ")
              r == load_airport_data_under(fault, airport_code, rng, cache)
          IN  /\ loop' = [loop EXCEPT !.pc = "loaded", !.airport_code = airport_code]
              /\ ret' = IF "raised" \in DOMAIN r
                        THEN [of |-> "load_airport_data", code |-> airport_code,
                              raised |-> r.raised]
                        ELSE [of |-> "load_airport_data", code |-> airport_code,
                              table |-> r.table]
              /\ rng' = r.rng
              /\ cache' = r.cache
    /\ UNCHANGED <<row, hashseed, stream, tie, seen, calls, disk>>

\* except Exception as e: st.error(f"Error loading airport data: ..."); return
RenderLoadError ==
    /\ loop.gen = "page" /\ loop.pc = "loaded"
    /\ "raised" \in DOMAIN ret
    /\ loop' = [loop EXCEPT !.pc = "returned",
                            !.shown = Append(@, "st.error: Error loading airport data")]
    /\ UNCHANGED <<row, ret, callVars>>

\* if airport_data.empty: st.error("No data available ..."); return
RenderNoData ==
    /\ loop.gen = "page" /\ loop.pc = "loaded"
    /\ "table" \in DOMAIN ret
    /\ airport_data_empty(ret.table)
    /\ loop' = [loop EXCEPT !.pc = "returned",
                            !.shown = Append(@, "st.error: No data available")]
    /\ UNCHANGED <<row, ret, callVars>>

\* with tab1: render_route_intelligence(airport_code, airport_data)
RenderRouteIntelligence ==
    /\ loop.gen = "page" /\ loop.pc = "loaded"
    /\ "table" \in DOMAIN ret
    /\ ~airport_data_empty(ret.table)
    /\ loop' = [loop EXCEPT !.pc = "tab2",
                            !.shown = Append(@, "render_route_intelligence")]
    /\ UNCHANGED <<row, ret, callVars>>

\* with tab2: render_performance_analytics(airport_data)
RenderPerformanceAnalytics ==
    /\ loop.gen = "page" /\ loop.pc = "tab2"
    /\ loop' = [loop EXCEPT !.pc = "tab3",
                            !.shown = Append(@, "render_performance_analytics")]
    /\ UNCHANGED <<row, ret, callVars>>

\* with tab3: render_competitive_intelligence(airport_data); the simple
\* component returns after it.
RenderCompetitiveIntelligence ==
    /\ loop.gen = "page" /\ loop.pc = "tab3"
    /\ loop' = [loop EXCEPT
                  !.pc = IF loop.component = "transportation_analytics"
                         THEN "insights" ELSE "returned",
                  !.shown = Append(@, "render_competitive_intelligence")]
    /\ UNCHANGED <<row, ret, callVars>>

\* render_strategic_insights(), of the styled component.
RenderStrategicInsights ==
    /\ loop.gen = "page" /\ loop.pc = "insights"
    /\ loop' = [loop EXCEPT !.pc = "returned",
                            !.shown = Append(@, "render_strategic_insights")]
    /\ UNCHANGED <<row, ret, callVars>>

\* The user changes the selection: the page is run again from its first line.
Rerun ==
    /\ loop.gen = "page" /\ loop.pc = "returned"
    /\ loop.run < MaxRuns
    /\ loop' = [loop EXCEPT !.pc = "load", !.run = @ + 1, !.airport_code = "",
                            !.shown = <<>>]
    /\ ret' = NoReturn
    /\ UNCHANGED <<row, callVars>>

NextPage ==
    \/ RenderLoad
    \/ RenderLoadError
    \/ RenderNoData
    \/ RenderRouteIntelligence
    \/ RenderPerformanceAnalytics
    \/ RenderCompetitiveIntelligence
    \/ RenderStrategicInsights
    \/ Rerun

SpecPage == InitPage /\ [][NextPage]_vars

\* C30: in a run of the transportation page, an analysis tab is rendered
\* only after load_airport_data has returned a table with rows; when it has
\* returned an empty table or raised, the run ends with an error message
\* shown and none of the three tabs rendered.
C30_TabsOnlyAfterNonEmptyTable ==
    (loop.gen = "page" /\ loop.pc # "load") =>
        LET rendered == Range(loop.shown)
            errors == { m \in rendered : SubSeq(m, 1, 8) = "st.error" }
            failed == "raised" \in DOMAIN ret \/ ret.table = EmptyDataFrame
        IN  /\ (rendered \cap AnalysisTabs # {}) => ~failed
            /\ (errors # {}) => rendered \cap AnalysisTabs = {}
            /\ (failed /\ loop.pc = "returned")
                  => errors # {} /\ rendered \cap AnalysisTabs = {}
            /\ (failed /\ loop.pc # "returned") => loop.pc = "loaded"

\* The second run of the styled page: the loader returned an empty table for
\* ATL, the message was shown and the run ended without a tab.
C30_Witness ==
    /\ loop.gen = "page" /\ loop.pc = "returned"
    /\ loop.component = "transportation_analytics"
    /\ loop.run = 2
    /\ loop.airport_code = "ATL"
    /\ "table" \in DOMAIN ret /\ ret.table = EmptyDataFrame
    /\ loop.shown = << "st.error: No data available" >>

====
